---- MODULE Spec2Model ----
(***************************************************************************)
(* State-machine model of the GEB WhatsApp dashboard backend               *)
(* (src/backend): the in-memory collection store, the token guard, the     *)
(* user, template, message and webhook handlers and the gateway client.    *)
(*                                                                         *)
(* Conventions.                                                            *)
(*  - A Python str that the code strips, lower-cases, measures or scans    *)
(*    is a sequence of one-character strings; tags that are only compared  *)
(*    (roles, statuses, action tags) are TLA+ strings.                     *)
(*  - A nullable value is None (<<>>) or Some(v) (<<v>>).                  *)
(*  - The wall clock (datetime.utcnow) is the variable clock, in hours.    *)
(*  - Every handler is one action; resp records the request it served and  *)
(*    the HTTP status it returned.                                         *)
(***************************************************************************)
EXTENDS Integers, Sequences, FiniteSets, TLC

VARIABLES
    users,          \* store.users
    templates,      \* store.templates
    message_logs,   \* store.message_logs
    campaigns,      \* store.campaigns
    activity_logs,  \* store.activity_logs
    next_id,        \* store._next_id
    tokens,         \* bearer tokens issued so far by generate_token
    clock,          \* datetime.utcnow(), in hours since start
    creds,          \* whether WHATSAPP_PHONE_ID and WHATSAPP_TOKEN are set
    outbox,         \* the payloads handed to the gateway's _post, in order
    resp,           \* the request served last and its response
    tasks,          \* the requests in flight: one asyncio task each
    loop            \* the task the event loop is running, 0 when it runs none

vars == <<users, templates, message_logs, campaigns, activity_logs,
          next_id, tokens, clock, creds, outbox, resp, tasks, loop>>

store == <<users, templates, message_logs, campaigns, activity_logs, next_id>>

----------------------------------------------------------------------------
(* Nullable values *)

None == <<>>
Some(v) == <<v>>
IsSome(o) == o # <<>>
Get(o) == o[1]

----------------------------------------------------------------------------
(* Python str operations on sequences of characters *)

Uppers == <<"A","B","C","D","E","F","G","H","I","J","K","L","M",
            "N","O","P","Q","R","S","T","U","V","W","X","Y","Z">>
Lowers == <<"a","b","c","d","e","f","g","h","i","j","k","l","m",
            "n","o","p","q","r","s","t","u","v","w","x","y","z">>
Digits == {"0","1","2","3","4","5","6","7","8","9"}
Whitespace == {" ", "\t", "\n", "\r"}

LowerChar(c) ==
    IF \E i \in 1..Len(Uppers) : Uppers[i] = c
    THEN Lowers[CHOOSE i \in 1..Len(Uppers) : Uppers[i] = c]
    ELSE c

UpperChar(c) ==
    IF \E i \in 1..Len(Lowers) : Lowers[i] = c
    THEN Uppers[CHOOSE i \in 1..Len(Lowers) : Lowers[i] = c]
    ELSE c

\* str.lower()
Lower(s) == [i \in 1..Len(s) |-> LowerChar(s[i])]

\* str.upper()
Upper(s) == [i \in 1..Len(s) |-> UpperChar(s[i])]

\* str.strip(): drop leading and trailing whitespace
Strip(s) ==
    LET keep == {i \in 1..Len(s) : s[i] \notin Whitespace}
    IN  IF keep = {} THEN <<>>
        ELSE LET lo == CHOOSE i \in keep : \A j \in keep : i <= j
                 hi == CHOOSE i \in keep : \A j \in keep : j <= i
             IN  SubSeq(s, lo, hi)

\* str.replace(old, new) for a one-character old and new
ReplaceChar(s, old, new) == [i \in 1..Len(s) |-> IF s[i] = old THEN new ELSE s[i]]

\* str.replace(c, ""): delete every occurrence of the character c
RECURSIVE RemoveChar(_, _)
RemoveChar(s, c) ==
    IF s = <<>> THEN <<>>
    ELSE IF Head(s) = c THEN RemoveChar(Tail(s), c)
    ELSE <<Head(s)>> \o RemoveChar(Tail(s), c)

\* str.isdigit(): non-empty and every character a digit
IsDigit(s) == s # <<>> /\ \A i \in 1..Len(s) : s[i] \in Digits

\* str.startswith(p)
StartsWith(s, p) == Len(s) >= Len(p) /\ SubSeq(s, 1, Len(p)) = p

----------------------------------------------------------------------------
(* config.py *)

JWT_EXPIRY_HOURS == 8
SECRET_KEY == "geb-secret-key-change-in-production"
ADMIN_USERNAME == <<"a","d","m","i","n">>
ADMIN_PASSWORD == <<"a","d","m","i","n","1","2","3">>
ADMIN_NAME == <<"G","E","B"," ","A","d","m","i","n">>
ADMIN_EMAIL == <<"a","d","m","i","n","@","g","e","b",".","c","o","m">>

(* routes/users.py *)
MAX_USERS == 6

----------------------------------------------------------------------------
(* store.py *)

Collections == {"users", "templates", "message_logs", "campaigns", "activity_logs"}

\* for contrast, a counter that is read but never advanced
BumpNothing(ids, collection, n) == ids

\* _auto_id: the id handed out next, and the counter after handing out n ids
AutoId(ids, collection) == ids[collection]
Bump(ids, collection, n) == [ids EXCEPT ![collection] = @ + n]

\* werkzeug generate_password_hash / check_password_hash: a hash verifies
\* exactly the password it was made from
GeneratePasswordHash(pw) == [hashed |-> pw]
CheckPasswordHash(h, pw) == h.hashed = pw

\* one ActivityLog record, as log_activity appends it (the ip address of the
\* client is not modelled)
ActivityEntry(ids, user_id, username, action, details) ==
    [id |-> AutoId(ids, "activity_logs"), user_id |-> user_id,
     username |-> username, action |-> action, details |-> details,
     timestamp |-> clock]

LogActivity(user_id, username, action, details) ==
    /\ activity_logs' = Append(activity_logs,
            ActivityEntry(next_id, user_id, username, action, details))

SeedAdmin ==
    [id |-> 1, name |-> ADMIN_NAME, email |-> ADMIN_EMAIL,
     username |-> ADMIN_USERNAME,
     password_hash |-> GeneratePasswordHash(ADMIN_PASSWORD),
     role |-> "admin", is_active |-> 1, created_at |-> 0, last_login |-> None]

----------------------------------------------------------------------------
(* The event loop: every handler is a coroutine run by one loop, which      *)
(* leaves a task only where the task awaits or returns                     *)

MaxTasks == 2       \* requests in flight at once

TaskIds == 1..MaxTasks

\* no request in flight in this slot
IdleTask == [op |-> "", pc |-> "idle", local |-> <<>>]

\* for contrast, a handler that also awaits the gateway's answer
SuspendsAtGateway(point) == point \in {"csv_read", "request_json", "gateway_call"}

\* the points of the handlers at which the coroutine awaits: the read of the
\* uploaded file in send_bulk_message and the read of the body in
\* receive_webhook; the call of the gateway is an ordinary blocking call
Suspends(point) == point \in {"csv_read", "request_json"}

\* the task is next on the loop: the loop is running it
Running(t) == loop = t /\ tasks[t].pc # "idle"

\* the task goes on to pc with its locals; the loop leaves it only where it
\* awaits
Continue(t, pc, local, point) ==
    /\ tasks' = [tasks EXCEPT ![t] = [op |-> tasks[t].op, pc |-> pc, local |-> local]]
    /\ loop' = IF Suspends(point) THEN 0 ELSE t

\* the handler returns or raises: the task the loop is running is over
Return ==
    /\ tasks' = [t \in TaskIds |-> IF t = loop THEN IdleTask ELSE tasks[t]]
    /\ loop' = 0

----------------------------------------------------------------------------
(* Responses *)

\* the request served and its response: the handler, the HTTP status, the
\* HTTPException detail ("" on success), the bearer token the request carried
\* (None when it carried none), and the request's parameters (for login, also
\* the token issued)
Respond(op, code, detail, tok, arg) ==
    /\ resp' = [op |-> op, code |-> code, detail |-> detail, tok |-> tok, arg |-> arg]
    /\ Return

\* raise HTTPException before any mutation
Reject(op, code, detail, tok, arg) ==
    /\ Respond(op, code, detail, tok, arg)
    /\ UNCHANGED <<store, tokens, clock, creds, outbox>>

----------------------------------------------------------------------------
(* routes/auth.py *)

\* generate_token: the claims, signed with the configured key
GenerateToken(user_id, username, role) ==
    [user_id |-> user_id, username |-> username, role |-> role,
     exp |-> clock + JWT_EXPIRY_HOURS, iat |-> clock, key |-> SECRET_KEY]

\* for contrast, a decoder that verifies the signature and not the expiry
DecodeTokenNoExpiry(token) ==
    IF token.key # SECRET_KEY
    THEN [code |-> 401, detail |-> "Invalid token", user |-> None]
    ELSE [code |-> 200, detail |-> "",
          user |-> Some([user_id |-> token.user_id, username |-> token.username,
                         role |-> token.role])]

\* _decode_token: jwt.decode verifies the signature, then the expiry
DecodeToken(token) ==
    IF token.key # SECRET_KEY
    THEN [code |-> 401, detail |-> "Invalid token", user |-> None]
    ELSE IF token.exp <= clock
    THEN [code |-> 401, detail |-> "Token expired", user |-> None]
    ELSE [code |-> 200, detail |-> "",
          user |-> Some([user_id |-> token.user_id, username |-> token.username,
                         role |-> token.role])]

\* a guard that also looks the token's user up in the store and rejects the
\* token when the account is deactivated or its role differs from the claim
GetCurrentUserLive(tok) ==
    IF ~IsSome(tok)
    THEN [code |-> 401, detail |-> "Authentication token required", user |-> None]
    ELSE LET r == DecodeToken(Get(tok))
             live == {i \in 1..Len(users) : users[i].id = Get(tok).user_id}
         IN  IF r.code = 200
                /\ \A i \in live : users[i].is_active = 0
                                     \/ users[i].role # Get(tok).role
             THEN [code |-> 401, detail |-> "Invalid token", user |-> None]
             ELSE r

\* get_current_user: tok is None when the request carries no token
GetCurrentUser(tok) ==
    IF ~IsSome(tok)
    THEN [code |-> 401, detail |-> "Authentication token required", user |-> None]
    ELSE DecodeToken(Get(tok))

\* get_admin_user
GetAdminUser(tok) ==
    LET r == GetCurrentUser(tok)
    IN  IF r.code # 200 THEN r
        ELSE IF Get(r.user).role # "admin"
        THEN [code |-> 403, detail |-> "Admin access required", user |-> None]
        ELSE r

\* for contrast, a lookup that falls back on the first record
FindByIdOrFirst(coll, id) ==
    IF \E i \in 1..Len(coll) : coll[i].id = id
    THEN CHOOSE i \in 1..Len(coll) :
            coll[i].id = id /\ \A j \in 1..(i - 1) : coll[j].id # id
    ELSE IF coll = <<>> THEN 0 ELSE 1

\* next((x for x in coll if x["id"] == id), None): the index of the first
\* record with that id, 0 when there is none
FindById(coll, id) ==
    IF \E i \in 1..Len(coll) : coll[i].id = id
    THEN CHOOSE i \in 1..Len(coll) :
            coll[i].id = id /\ \A j \in 1..(i - 1) : coll[j].id # id
    ELSE 0

\* login: the first active user with that username, 0 when there is none
LoginUser(us, username) ==
    IF \E i \in 1..Len(us) : us[i].username = username /\ us[i].is_active # 0
    THEN CHOOSE i \in 1..Len(us) :
            /\ us[i].username = username /\ us[i].is_active # 0
            /\ \A j \in 1..(i - 1) : ~(us[j].username = username /\ us[j].is_active # 0)
    ELSE 0

\* POST /api/auth/login
Login(body) ==
    LET username == Strip(body.username)
        password == body.password
        i == LoginUser(users, username)
    IN  IF username = <<>> \/ password = <<>>
        THEN Reject("login", 400, "Username and password required", None,
                    [body |-> body, token |-> None])
        ELSE IF i = 0 \/ ~CheckPasswordHash(users[i].password_hash, password)
        THEN Reject("login", 401, "Invalid credentials", None,
                    [body |-> body, token |-> None])
        ELSE LET user == users[i]
                 token == GenerateToken(user.id, user.username, user.role)
             IN  /\ users' = [users EXCEPT ![i].last_login = Some(clock)]
                 /\ tokens' = tokens \cup {token}
                 /\ LogActivity(user.id, user.username, "LOGIN", None)
                 /\ next_id' = Bump(next_id, "activity_logs", 1)
                 /\ Respond("login", 200, "", None,
                            [body |-> body, token |-> Some(token)])
                 /\ UNCHANGED <<templates, message_logs, campaigns, clock, creds, outbox>>

\* POST /api/auth/logout
Logout(tok) ==
    LET auth == GetCurrentUser(tok)
    IN  IF auth.code # 200
        THEN Reject("logout", auth.code, auth.detail, tok, None)
        ELSE LET cu == Get(auth.user)
             IN  /\ LogActivity(cu.user_id, cu.username, "LOGOUT", None)
                 /\ next_id' = Bump(next_id, "activity_logs", 1)
                 /\ Respond("logout", 200, "", tok, None)
                 /\ UNCHANGED <<users, templates, message_logs, campaigns,
                                tokens, clock, creds, outbox>>

\* POST /api/auth/change-password
ChangePassword(tok, body) ==
    LET auth == GetCurrentUser(tok)
    IN  IF auth.code # 200
        THEN Reject("change_password", auth.code, auth.detail, tok, [body |-> body])
        ELSE LET cu == Get(auth.user)
                 i == FindById(users, cu.user_id)
             IN  IF body.current_password = <<>> \/ body.new_password = <<>>
                 THEN Reject("change_password", 400,
                             "Both current and new password required", tok, [body |-> body])
                 ELSE IF Len(body.new_password) < 6
                 THEN Reject("change_password", 400,
                             "New password must be at least 6 characters", tok, [body |-> body])
                 ELSE IF i = 0 \/ ~CheckPasswordHash(users[i].password_hash,
                                                      body.current_password)
                 THEN Reject("change_password", 400,
                             "Current password is incorrect", tok, [body |-> body])
                 ELSE /\ users' = [users EXCEPT ![i].password_hash =
                                        GeneratePasswordHash(body.new_password)]
                      /\ LogActivity(cu.user_id, cu.username, "PASSWORD_CHANGE", None)
                      /\ next_id' = Bump(next_id, "activity_logs", 1)
                      /\ Respond("change_password", 200, "", tok, [body |-> body])
                      /\ UNCHANGED <<templates, message_logs, campaigns,
                                     tokens, clock, creds, outbox>>

----------------------------------------------------------------------------
(* routes/users.py *)

Roles == {"admin", "operator", "viewer"}

\* sum(1 for u in users if u["is_active"])
ActiveCount(us) == Cardinality({i \in 1..Len(us) : us[i].is_active # 0})

\* the username check that passes over the first record of the collection
UsernameExistsAfterFirst(us, username) ==
    \E i \in 2..Len(us) : us[i].username = username

\* any(u["username"] == username for u in users)
UsernameExists(us, username) == \E i \in 1..Len(us) : us[i].username = username

\* any(u["email"] == email for u in users)
EmailExists(us, email) == \E i \in 1..Len(us) : us[i].email = email

\* the record create_user appends
NewUser(id, name, email, username, password, role) ==
    [id |-> id, name |-> name, email |-> email, username |-> username,
     password_hash |-> GeneratePasswordHash(password),
     role |-> role, is_active |-> 1, created_at |-> clock, last_login |-> None]

\* POST /api/users/
CreateUser(tok, body) ==
    LET auth == GetAdminUser(tok)
        name == Strip(body.name)
        email == Lower(Strip(body.email))
        username == Lower(Strip(body.username))
        password == body.password
        role == body.role
    IN  IF auth.code # 200
        THEN Reject("create_user", auth.code, auth.detail, tok, [body |-> body])
        ELSE IF name = <<>> \/ email = <<>> \/ username = <<>> \/ password = <<>>
        THEN Reject("create_user", 400, "Name, email, username, and password are required",
                    tok, [body |-> body])
        ELSE IF Len(password) < 6
        THEN Reject("create_user", 400, "Password must be at least 6 characters",
                    tok, [body |-> body])
        ELSE IF role \notin Roles
        THEN Reject("create_user", 400, "Role must be admin, operator, or viewer",
                    tok, [body |-> body])
        ELSE IF ActiveCount(users) >= MAX_USERS
        THEN Reject("create_user", 400, "Maximum users allowed per the license",
                    tok, [body |-> body])
        ELSE IF UsernameExists(users, username)
        THEN Reject("create_user", 409, "Username already exists", tok, [body |-> body])
        ELSE IF EmailExists(users, email)
        THEN Reject("create_user", 409, "Email already exists", tok, [body |-> body])
        ELSE LET cu == Get(auth.user)
                 user_id == AutoId(next_id, "users")
             IN  /\ users' = Append(users,
                        NewUser(user_id, name, email, username, password, role))
                 /\ LogActivity(cu.user_id, cu.username, "CREATE_USER",
                                Some(<<"Created user", username, role>>))
                 /\ next_id' = Bump(Bump(next_id, "users", 1), "activity_logs", 1)
                 /\ Respond("create_user", 200, "", tok, [body |-> body])
                 /\ UNCHANGED <<templates, message_logs, campaigns, tokens, clock, creds, outbox>>

\* the fields of body that are not None, written onto the user record
ApplyUserUpdate(user, body) ==
    [user EXCEPT
        !.name = IF IsSome(body.name) THEN Get(body.name) ELSE @,
        !.email = IF IsSome(body.email) THEN Get(body.email) ELSE @,
        !.role = IF IsSome(body.role) THEN Get(body.role) ELSE @,
        !.is_active = IF IsSome(body.is_active)
                      THEN (IF Get(body.is_active) THEN 1 ELSE 0) ELSE @]

\* PUT /api/users/{user_id}
UpdateUser(tok, user_id, body) ==
    LET auth == GetAdminUser(tok)
        i == FindById(users, user_id)
    IN  IF auth.code # 200
        THEN Reject("update_user", auth.code, auth.detail, tok,
                    [user_id |-> user_id, body |-> body])
        ELSE IF i = 0
        THEN Reject("update_user", 404, "User not found", tok,
                    [user_id |-> user_id, body |-> body])
        ELSE LET cu == Get(auth.user)
             IN  /\ users' = [users EXCEPT ![i] = ApplyUserUpdate(@, body)]
                 /\ LogActivity(cu.user_id, cu.username, "UPDATE_USER",
                                Some(<<"Updated user ID", user_id>>))
                 /\ next_id' = Bump(next_id, "activity_logs", 1)
                 /\ Respond("update_user", 200, "", tok,
                            [user_id |-> user_id, body |-> body])
                 /\ UNCHANGED <<templates, message_logs, campaigns, tokens, clock, creds, outbox>>

\* for contrast, a hard delete: the users collection without its i-th record
DeactivateByRemoval(us, i) ==
    [k \in 1..(Len(us) - 1) |-> IF k < i THEN us[k] ELSE us[k + 1]]

\* delete_user's mutation of the users collection: the target is deactivated
Deactivate(us, i) == [us EXCEPT ![i].is_active = 0]

\* delete_user's guard: the caller may not target their own account
IsSelf(cu, user_id) == user_id = cu.user_id

\* DELETE /api/users/{user_id}
DeleteUser(tok, user_id) ==
    LET auth == GetAdminUser(tok)
        i == FindById(users, user_id)
    IN  IF auth.code # 200
        THEN Reject("delete_user", auth.code, auth.detail, tok,
                    [user_id |-> user_id])
        ELSE IF IsSelf(Get(auth.user), user_id)
        THEN Reject("delete_user", 400, "Cannot delete your own account",
                    tok, [user_id |-> user_id])
        ELSE IF i = 0
        THEN Reject("delete_user", 404, "User not found", tok, [user_id |-> user_id])
        ELSE LET cu == Get(auth.user)
             IN  /\ users' = Deactivate(users, i)
                 /\ LogActivity(cu.user_id, cu.username, "DEACTIVATE_USER",
                                Some(<<"Deactivated user ID", user_id>>))
                 /\ next_id' = Bump(next_id, "activity_logs", 1)
                 /\ Respond("delete_user", 200, "", tok, [user_id |-> user_id])
                 /\ UNCHANGED <<templates, message_logs, campaigns, tokens, clock, creds, outbox>>

\* the passage of time between requests
Tick(d) ==
    /\ clock' = clock + d
    /\ UNCHANGED <<store, tokens, creds, outbox, resp, tasks, loop>>

----------------------------------------------------------------------------
(* store.py: the four sample templates *)

\* samples[0] of _seed_templates
SampleTemplate1 ==
    [name |-> <<"s","e","r","v","i","c","e","_","u","p","d","a","t","e">>,
     category |-> <<"U","T","I","L","I","T","Y">>, language |-> "en",
     body |->
        <<"I","m","p","o","r","t","a","n","t"," ","u","p","d","a","t","e",
          " ","r","e","g","a","r","d","i","n","g"," ","y","o","u","r"," ",
          "s","e","r","v","i","c","e"," ","r","e","q","u","e","s","t"," ",
          "{","{","1","}","}",":"," ","{","{","2","}","}">>,
     header |-> Some(<<"G","E","B"," ","S","e","r","v","i","c","e"," ","U","p","d","a","t","e">>),
     footer |-> Some(<<"T","h","a","n","k"," ","y","o","u"," ","f","o","r"," ","c","h","o","o","s","i","n","g"," ","G","E","B">>),
     button_text |-> None,
     button_url |->
        None,
     status |-> "approved", created_by |-> 1, created_at |-> 0]

\* samples[1] of _seed_templates
SampleTemplate2 ==
    [name |-> <<"g","r","o","u","p","_","i","n","v","i","t","e">>,
     category |-> <<"U","T","I","L","I","T","Y">>, language |-> "en",
     body |->
        <<"H","i"," ","{","{","1","}","}",","," ","y","o","u"," ","a","r",
          "e"," ","i","n","v","i","t","e","d"," ","t","o"," ","j","o","i",
          "n"," ","t","h","e"," ","G","E","B"," ","g","r","o","u","p",".",
          " ","C","l","i","c","k"," ","b","e","l","o","w"," ","t","o"," ",
          "j","o","i","n",".">>,
     header |-> Some(<<"G","E","B"," ","G","r","o","u","p"," ","I","n","v","i","t","a","t","i","o","n">>),
     footer |-> None,
     button_text |-> Some(<<"J","o","i","n"," ","G","r","o","u","p">>),
     button_url |->
        Some(<<"h","t","t","p","s",":","/","/","c","h","a","t",".","w","h","a","t","s","a","p","p",".","c","o","m","/","e","x","a","m","p","l","e">>),
     status |-> "approved", created_by |-> 1, created_at |-> 0]

\* samples[2] of _seed_templates (the rupee sign of the body is written Rs)
SampleTemplate3 ==
    [name |-> <<"p","a","y","m","e","n","t","_","r","e","m","i","n","d","e","r">>,
     category |-> <<"U","T","I","L","I","T","Y">>, language |-> "en",
     body |->
        <<"D","e","a","r"," ","{","{","1","}","}",","," ","y","o","u","r",
          " ","p","a","y","m","e","n","t"," ","o","f"," ","R","s","{","{",
          "2","}","}"," ","i","s"," ","d","u","e"," ","o","n"," ","{","{",
          "3","}","}","."," ","P","l","e","a","s","e"," ","p","a","y"," ",
          "t","o"," ","a","v","o","i","d"," ","i","n","t","e","r","r","u",
          "p","t","i","o","n",".">>,
     header |-> Some(<<"P","a","y","m","e","n","t"," ","R","e","m","i","n","d","e","r">>),
     footer |-> Some(<<"G","E","B"," ","B","i","l","l","i","n","g">>),
     button_text |-> None,
     button_url |->
        None,
     status |-> "approved", created_by |-> 1, created_at |-> 0]

\* samples[3] of _seed_templates
SampleTemplate4 ==
    [name |-> <<"w","e","l","c","o","m","e","_","m","e","s","s","a","g","e">>,
     category |-> <<"M","A","R","K","E","T","I","N","G">>, language |-> "en",
     body |->
        <<"W","e","l","c","o","m","e"," ","t","o"," ","G","E","B",","," ",
          "{","{","1","}","}","!"," ","W","e"," ","a","r","e"," ","e","x",
          "c","i","t","e","d"," ","t","o"," ","h","a","v","e"," ","y","o",
          "u"," ","o","n"," ","b","o","a","r","d","."," ","Y","o","u","r",
          " ","a","c","c","o","u","n","t"," ","i","s"," ","n","o","w"," ",
          "a","c","t","i","v","e",".">>,
     header |-> Some(<<"W","e","l","c","o","m","e"," ","t","o"," ","G","E","B">>),
     footer |-> None,
     button_text |-> None,
     button_url |->
        None,
     status |-> "approved", created_by |-> 1, created_at |-> 0]

Samples == <<SampleTemplate1, SampleTemplate2, SampleTemplate3, SampleTemplate4>>

\* _seed_templates: each sample gets the next id of the collection, in order
SeedTemplates ==
    [k \in 1..Len(Samples) |->
        [id |-> k, name |-> Samples[k].name, category |-> Samples[k].category,
         language |-> Samples[k].language, body |-> Samples[k].body,
         header |-> Samples[k].header, footer |-> Samples[k].footer,
         button_text |-> Samples[k].button_text, button_url |-> Samples[k].button_url,
         status |-> Samples[k].status, created_by |-> Samples[k].created_by,
         created_at |-> Samples[k].created_at]]

\* _next_id after the seeding on import: one user and the samples
SeedNextId ==
    [c \in Collections |->
        IF c = "users" THEN 2
        ELSE IF c = "templates" THEN Len(Samples) + 1
        ELSE 1]

----------------------------------------------------------------------------
(* routes/templates.py *)

Categories == {<<"U","T","I","L","I","T","Y">>,
               <<"M","A","R","K","E","T","I","N","G">>,
               <<"A","U","T","H","E","N","T","I","C","A","T","I","O","N">>}

\* for contrast, a normalisation that forgets to lower-case
NormalizeNameKeepCase(raw) == ReplaceChar(Strip(raw), " ", "_")

\* body.name.strip().lower().replace(" ", "_")
NormalizeTemplateName(raw) == ReplaceChar(Lower(Strip(raw)), " ", "_")

\* any(t["name"] == name for t in templates)
TemplateNameExists(ts, name) == \E i \in 1..Len(ts) : ts[i].name = name

\* x or None, for a str x
OrNone(x) == IF x = <<>> THEN None ELSE Some(x)

\* the sequence without its i-th element (list.remove of the element found)
RemoveAt(seq, i) == [k \in 1..(Len(seq) - 1) |-> IF k < i THEN seq[k] ELSE seq[k + 1]]

\* POST /api/templates/
CreateTemplate(tok, body) ==
    LET auth == GetCurrentUser(tok)
        name == NormalizeTemplateName(body.name)
        category == Upper(body.category)
        tmpl_body == Strip(body.body)
    IN  IF auth.code # 200
        THEN Reject("create_template", auth.code, auth.detail, tok, [body |-> body])
        ELSE IF name = <<>> \/ tmpl_body = <<>>
        THEN Reject("create_template", 400, "Template name and body are required",
                    tok, [body |-> body])
        ELSE IF category \notin Categories
        THEN Reject("create_template", 400,
                    "Category must be UTILITY, MARKETING, or AUTHENTICATION", tok, [body |-> body])
        ELSE IF TemplateNameExists(templates, name)
        THEN Reject("create_template", 409, "Template with name already exists",
                    tok, [body |-> body])
        ELSE LET cu == Get(auth.user)
                 tmpl_id == AutoId(next_id, "templates")
             IN  /\ templates' = Append(templates,
                        [id |-> tmpl_id, name |-> name, category |-> category,
                         language |-> body.language, body |-> tmpl_body,
                         header |-> OrNone(Strip(body.header)),
                         footer |-> OrNone(Strip(body.footer)),
                         button_text |-> OrNone(Strip(body.button_text)),
                         button_url |-> OrNone(Strip(body.button_url)),
                         status |-> "pending", created_by |-> cu.user_id,
                         created_at |-> clock])
                 /\ LogActivity(cu.user_id, cu.username, "CREATE_TEMPLATE",
                                Some(<<"Template", name>>))
                 /\ next_id' = Bump(Bump(next_id, "templates", 1), "activity_logs", 1)
                 /\ Respond("create_template", 200, "", tok, [body |-> body])
                 /\ UNCHANGED <<users, message_logs, campaigns, tokens, clock, creds, outbox>>

\* the fields of body that are not None, written onto the template record
ApplyTemplateUpdate(tmpl, body) ==
    [tmpl EXCEPT
        !.body = IF IsSome(body.body) THEN Get(body.body) ELSE @,
        !.header = IF IsSome(body.header) THEN OrNone(Get(body.header)) ELSE @,
        !.footer = IF IsSome(body.footer) THEN OrNone(Get(body.footer)) ELSE @,
        !.button_text = IF IsSome(body.button_text)
                        THEN OrNone(Get(body.button_text)) ELSE @,
        !.button_url = IF IsSome(body.button_url)
                       THEN OrNone(Get(body.button_url)) ELSE @,
        !.status = IF IsSome(body.status) THEN Get(body.status) ELSE @]

\* PUT /api/templates/{template_id}
UpdateTemplate(tok, template_id, body) ==
    LET auth == GetCurrentUser(tok)
        i == FindById(templates, template_id)
    IN  IF auth.code # 200
        THEN Reject("update_template", auth.code, auth.detail, tok,
                    [template_id |-> template_id, body |-> body])
        ELSE IF i = 0
        THEN Reject("update_template", 404, "Template not found", tok,
                    [template_id |-> template_id, body |-> body])
        ELSE LET cu == Get(auth.user)
             IN  /\ templates' = [templates EXCEPT ![i] = ApplyTemplateUpdate(@, body)]
                 /\ LogActivity(cu.user_id, cu.username, "UPDATE_TEMPLATE",
                                Some(<<"Template ID", template_id>>))
                 /\ next_id' = Bump(next_id, "activity_logs", 1)
                 /\ Respond("update_template", 200, "", tok,
                    [template_id |-> template_id, body |-> body])
                 /\ UNCHANGED <<users, message_logs, campaigns, tokens, clock, creds, outbox>>

\* DELETE /api/templates/{template_id}
DeleteTemplate(tok, template_id) ==
    LET auth == GetAdminUser(tok)
        i == FindById(templates, template_id)
    IN  IF auth.code # 200
        THEN Reject("delete_template", auth.code, auth.detail, tok,
                    [template_id |-> template_id])
        ELSE IF i = 0
        THEN Reject("delete_template", 404, "Template not found", tok,
                    [template_id |-> template_id])
        ELSE LET cu == Get(auth.user)
             IN  /\ templates' = RemoveAt(templates, i)
                 /\ LogActivity(cu.user_id, cu.username, "DELETE_TEMPLATE",
                                Some(<<"Template", templates[i].name>>))
                 /\ next_id' = Bump(next_id, "activity_logs", 1)
                 /\ Respond("delete_template", 200, "", tok,
                    [template_id |-> template_id])
                 /\ UNCHANGED <<users, message_logs, campaigns, tokens, clock, creds, outbox>>

\* POST /api/templates/{template_id}/approve
ApproveTemplate(tok, template_id) ==
    LET auth == GetAdminUser(tok)
        i == FindById(templates, template_id)
    IN  IF auth.code # 200
        THEN Reject("approve_template", auth.code, auth.detail, tok,
                    [template_id |-> template_id])
        ELSE IF i = 0
        THEN Reject("approve_template", 404, "Template not found", tok,
                    [template_id |-> template_id])
        ELSE LET cu == Get(auth.user)
             IN  /\ templates' = [templates EXCEPT ![i].status = "approved"]
                 /\ LogActivity(cu.user_id, cu.username, "APPROVE_TEMPLATE",
                                Some(<<"Template ID", template_id>>))
                 /\ next_id' = Bump(next_id, "activity_logs", 1)
                 /\ Respond("approve_template", 200, "", tok,
                    [template_id |-> template_id])
                 /\ UNCHANGED <<users, message_logs, campaigns, tokens, clock, creds, outbox>>

----------------------------------------------------------------------------
(* whatsapp_service.py *)

\* phone.strip().replace(" ", "").replace("-", "").replace("+", "")
CleanPhone(phone) == RemoveChar(RemoveChar(RemoveChar(Strip(phone), " "), "-"), "+")

\* _normalize_phone
NormalizePhone(phone) ==
    LET cleaned == CleanPhone(phone)
    IN  IF ~StartsWith(cleaned, <<"9","1">>) /\ Len(cleaned) = 10
        THEN <<"9","1">> \o cleaned
        ELSE cleaned

\* for contrast, a length test that stops one short
ValidatePhoneUnder15(phone) ==
    LET cleaned == CleanPhone(phone)
    IN  IsDigit(cleaned) /\ 7 <= Len(cleaned) /\ Len(cleaned) < 15

\* validate_phone
ValidatePhone(phone) ==
    LET cleaned == CleanPhone(phone)
    IN  IsDigit(cleaned) /\ 7 <= Len(cleaned) /\ Len(cleaned) <= 15

\* what _post can return.  Without credentials: _simulate_response, with a
\* random message id.  With credentials: HTTP 200 with the provider's message
\* id ("unknown" when the reply carries none), a provider error, a timeout, a
\* connection error or any other exception, each caught and returned.
SimulatedResult(id) ==
    [success |-> TRUE, message_id |-> Some(id), error |-> None, simulated |-> TRUE]
SentResult(id) ==
    [success |-> TRUE, message_id |-> Some(id), error |-> None, simulated |-> FALSE]
FailedResult(error) ==
    [success |-> FALSE, message_id |-> None, error |-> Some(error), simulated |-> FALSE]

\* the error strings _post reports: the provider's error message ("Unknown
\* error" when the reply carries none), a timeout, a connection error, and
\* str(e) of any other exception
GatewayErrors == {"Unknown error", "Request timed out",
                  "Connection error - check network", "exception"}

\* the results _post may return, for message ids drawn from ids and error
\* strings drawn from errors
PostResults(ids, errors) ==
    IF ~creds
    THEN {SimulatedResult(id) : id \in ids}
    ELSE {SentResult(id) : id \in ids \cup {"unknown"}}
         \cup {FailedResult(e) : e \in errors}

\* the payload send_text_message builds
TextPayload(to_phone, text) ==
    [to |-> NormalizePhone(to_phone), type |-> "text", text |-> text]

\* the payload send_template_with_variables builds: a body component when
\* there are variables, then a button component when there is a button url
TemplatePayload(to_phone, template_name, variables, language_code, button_url) ==
    [to |-> NormalizePhone(to_phone), type |-> "template", name |-> template_name,
     language |-> language_code,
     components |->
        (IF variables # <<>> THEN <<[type |-> "body", parameters |-> variables]>>
         ELSE <<>>)
        \o (IF IsSome(button_url) /\ Get(button_url) # <<>>
            THEN <<[type |-> "button", parameters |-> <<Get(button_url)>>]>>
            ELSE <<>>)]

----------------------------------------------------------------------------
(* routes/messages.py *)

\* s[:100]
Preview(s) == SubSeq(s, 1, IF Len(s) < 100 THEN Len(s) ELSE 100)

\* "sent" if result.get("success") else "failed"
\* for contrast, a status that does not look at the result
SendStatusSent(result) == "sent"

SendStatus(result) == IF result.success THEN "sent" ELSE "failed"

\* the MessageLog a send appends
NewMessageLog(id, result, phone, name, message_type, template_id, template_name, body_preview, sent_by) ==
    [id |-> id, message_id |-> result.message_id, recipient_phone |-> phone,
     recipient_name |-> name, message_type |-> message_type,
     template_id |-> template_id, template_name |-> template_name,
     body_preview |-> body_preview, status |-> SendStatus(result),
     error_message |-> result.error, sent_by |-> sent_by, sent_at |-> clock,
     delivered_at |-> None, read_at |-> None]

\* POST /api/messages/send; results holds what the gateway returned at each
\* call the handler made: one result when the request gets as far as the
\* gateway, none when it is rejected before
SendSingleMessage(tok, body, results) ==
    LET auth == GetCurrentUser(tok)
        phone == Strip(body.phone)
        name == Strip(body.name)
        is_template == body.type = "template" /\ IsSome(body.template_id)
                       /\ Get(body.template_id) # 0
        is_text == body.type = "text" /\ body.text # <<>>
        i == IF is_template THEN FindById(templates, Get(body.template_id)) ELSE 0
        rejected == \/ auth.code # 200 \/ phone = <<>> \/ ~ValidatePhone(phone)
                    \/ (is_template /\ i = 0) \/ (~is_template /\ ~is_text)
        result == Head(results)
    IN  IF Len(results) # (IF rejected THEN 0 ELSE 1) THEN FALSE
        ELSE IF auth.code # 200
        THEN Reject("send_single_message", auth.code, auth.detail, tok,
                    [body |-> body, results |-> results])
        ELSE IF phone = <<>>
        THEN Reject("send_single_message", 400, "Phone number required", tok,
                    [body |-> body, results |-> results])
        ELSE IF ~ValidatePhone(phone)
        THEN Reject("send_single_message", 400, "Invalid phone number", tok,
                    [body |-> body, results |-> results])
        ELSE IF is_template /\ i = 0
        THEN Reject("send_single_message", 404, "Template not found", tok,
                    [body |-> body, results |-> results])
        ELSE IF ~is_template /\ ~is_text
        THEN Reject("send_single_message", 400, "Provide template_id or text body",
                    tok,
                    [body |-> body, results |-> results])
        ELSE LET cu == Get(auth.user)
                 payload == IF is_template
                            THEN TemplatePayload(phone, templates[i].name,
                                    body.variables, templates[i].language,
                                    templates[i].button_url)
                            ELSE TextPayload(phone, body.text)
                 log == NewMessageLog(AutoId(next_id, "message_logs"), result,
                            phone, OrNone(name), body.type, body.template_id,
                            IF is_template THEN Some(templates[i].name) ELSE None,
                            IF is_template THEN Preview(templates[i].body)
                            ELSE Preview(body.text),
                            cu.user_id)
             IN  /\ outbox' = Append(outbox, payload)
                 /\ message_logs' = Append(message_logs, log)
                 /\ LogActivity(cu.user_id, cu.username, "SEND_MESSAGE",
                                Some(<<"To", phone, "Status", log.status>>))
                 /\ next_id' = Bump(Bump(next_id, "message_logs", 1),
                                    "activity_logs", 1)
                 /\ Respond("send_single_message", 200, "", tok,
                    [body |-> body, results |-> results])
                 /\ UNCHANGED <<users, templates, campaigns, tokens, clock, creds>>

\* the value of a string of digits
RECURSIVE DigitsValue(_)
DigitsValue(s) ==
    IF s = <<>> THEN 0
    ELSE 10 * DigitsValue(SubSeq(s, 1, Len(s) - 1))
         + (CHOOSE d \in 0..9 : <<"0","1","2","3","4","5","6","7","8","9">>[d + 1] = s[Len(s)])

\* int(s) for a str s: surrounding whitespace and one sign are allowed; None
\* stands for the ValueError
ParseInt(raw) ==
    LET s == Strip(raw)
        signed == s # <<>> /\ s[1] \in {"+", "-"}
        digits == IF signed THEN Tail(s) ELSE s
    IN  IF ~IsDigit(digits) THEN None
        ELSE IF signed /\ s[1] = "-" THEN Some(0 - DigitsValue(digits))
        ELSE Some(DigitsValue(digits))

\* the recipients read from an uploaded CSV: rows without a phone are dropped
RECURSIVE CsvRecipients(_)
CsvRecipients(rows) ==
    IF rows = <<>> THEN <<>>
    ELSE LET row == Head(rows)
             phone == Strip(row.phone)
         IN  (IF phone # <<>>
              THEN <<[phone |-> phone, name |-> Strip(row.name),
                      variables |-> row.variables]>>
              ELSE <<>>)
             \o CsvRecipients(Tail(rows))

\* whether the bulk loop calls the gateway for a recipient: it skips a
\* recipient whose phone is empty or invalid, counting it as failed
BulkCallsGateway(rec) == Strip(rec.phone) # <<>> /\ ValidatePhone(Strip(rec.phone))

\* the recipients the bulk loop calls the gateway for, in order
CalledRecipients(recs) == SelectSeq(recs, BulkCallsGateway)

\* the MessageLogs the bulk loop appends: one after each gateway call, with
\* the ids from first_id on; results[k] is what the k-th call returned
BulkLogs(recs, results, tmpl, sent_by, first_id) ==
    LET called == CalledRecipients(recs)
    IN  [k \in 1..Len(called) |->
            NewMessageLog(first_id + k - 1, results[k], Strip(called[k].phone),
                          called[k].name, "bulk", Some(tmpl.id), Some(tmpl.name),
                          Preview(tmpl.body), sent_by)]

\* the payloads the bulk loop posts
BulkPayloads(recs, tmpl) ==
    LET called == CalledRecipients(recs)
    IN  [k \in 1..Len(called) |->
            TemplatePayload(Strip(called[k].phone), tmpl.name, called[k].variables,
                            tmpl.language, None)]

\* sent_count after the loop: the gateway calls that succeeded
BulkSentCount(results) == Cardinality({k \in 1..Len(results) : results[k].success})

\* for contrast, a failed_count that forgets the recipients skipped
BulkFailedCallsOnly(recs, results) ==
    Cardinality({k \in 1..Len(results) : ~results[k].success})

\* failed_count after the loop: the recipients skipped and the calls that failed
BulkFailedCount(recs, results) ==
    (Len(recs) - Len(CalledRecipients(recs)))
    + Cardinality({k \in 1..Len(results) : ~results[k].success})

\* POST /api/messages/bulk.  form.template_id is the raw form field,
\* form.recipients the parsed JSON (None when it does not parse), form.csv the
\* rows of the uploaded file (None when there is none); results holds what the
\* gateway returned at each call the handler made, in order
SendBulkMessage(tok, form, results) ==
    LET auth == GetCurrentUser(tok)
        tid == IF form.template_id = <<>> THEN None ELSE ParseInt(form.template_id)
        recs == IF IsSome(form.csv) THEN CsvRecipients(Get(form.csv))
                ELSE IF IsSome(form.recipients) THEN Get(form.recipients)
                ELSE <<>>
        i == IF IsSome(tid) THEN FindById(templates, Get(tid)) ELSE 0
        rejected == \/ auth.code # 200 \/ ~IsSome(form.recipients) \/ recs = <<>>
                    \/ ~IsSome(tid) \/ i = 0
    IN  IF Len(results) # (IF rejected THEN 0 ELSE Len(CalledRecipients(recs)))
        THEN FALSE
        ELSE IF auth.code # 200
        THEN Reject("send_bulk_message", auth.code, auth.detail, tok,
                    [form |-> form, results |-> results])
        ELSE IF form.template_id # <<>> /\ ~IsSome(tid)
        THEN Reject("send_bulk_message", 500, "ValueError", tok,
                    [form |-> form, results |-> results])
        ELSE IF ~IsSome(form.recipients)
        THEN Reject("send_bulk_message", 400, "Invalid recipients format", tok,
                    [form |-> form, results |-> results])
        ELSE IF recs = <<>>
        THEN Reject("send_bulk_message", 400, "No valid recipients found", tok,
                    [form |-> form, results |-> results])
        ELSE IF ~IsSome(tid) \/ Get(tid) = 0
        THEN Reject("send_bulk_message", 400,
                    "Template ID required for bulk messaging", tok,
                    [form |-> form, results |-> results])
        ELSE IF i = 0
        THEN Reject("send_bulk_message", 404, "Template not found", tok,
                    [form |-> form, results |-> results])
        ELSE LET cu == Get(auth.user)
                 tmpl == templates[i]
                 campaign_id == AutoId(next_id, "campaigns")
                 logs == BulkLogs(recs, results, tmpl, cu.user_id,
                                  AutoId(next_id, "message_logs"))
                 sent_count == BulkSentCount(results)
                 failed_count == BulkFailedCount(recs, results)
             IN  /\ campaigns' = Append(campaigns,
                        [id |-> campaign_id, name |-> form.campaign_name,
                         template_id |-> Get(tid), template_name |-> tmpl.name,
                         total_recipients |-> Len(recs),
                         sent_count |-> sent_count, delivered_count |-> 0,
                         read_count |-> 0, failed_count |-> failed_count,
                         status |-> "completed", created_by |-> cu.user_id,
                         created_at |-> clock, completed_at |-> Some(clock)])
                 /\ message_logs' = message_logs \o logs
                 /\ outbox' = outbox \o BulkPayloads(recs, tmpl)
                 /\ LogActivity(cu.user_id, cu.username, "BULK_SEND",
                        Some(<<"Campaign", form.campaign_name,
                               "Sent", sent_count, "Failed", failed_count>>))
                 /\ next_id' = [next_id EXCEPT
                                    !["campaigns"] = @ + 1,
                                    !["message_logs"] = @ + Len(logs),
                                    !["activity_logs"] = @ + 1]
                 /\ Respond("send_bulk_message", 200, "", tok,
                        [form |-> form, results |-> results])
                 /\ UNCHANGED <<users, templates, tokens, clock, creds>>

\* sorted(campaigns, key=created_at, reverse=True): the latest first, campaigns
\* of one time in the order of the store
RECURSIVE SortedByCreatedAtDesc(_)
SortedByCreatedAtDesc(cs) ==
    IF cs = <<>> THEN <<>>
    ELSE LET m == CHOOSE i \in 1..Len(cs) :
                    /\ \A j \in 1..Len(cs) : cs[j].created_at <= cs[i].created_at
                    /\ \A j \in 1..(i - 1) : cs[j].created_at < cs[i].created_at
         IN  <<cs[m]>> \o SortedByCreatedAtDesc(SubSeq(cs, 1, m - 1)
                                                \o SubSeq(cs, m + 1, Len(cs)))

\* GET /api/messages/campaigns
GetCampaigns(tok) ==
    LET auth == GetCurrentUser(tok)
    IN  IF auth.code # 200
        THEN Reject("get_campaigns", auth.code, auth.detail, tok, [campaigns |-> <<>>])
        ELSE /\ Respond("get_campaigns", 200, "", tok,
                        [campaigns |-> SortedByCreatedAtDesc(campaigns)])
             /\ UNCHANGED <<store, tokens, clock, creds, outbox>>

----------------------------------------------------------------------------
(* The handlers as the event loop runs them: one step from each point of    *)
(* the code to the next at which another task could be run.  seen is the   *)
(* store as the task left it at its last step.                              *)

\* create_user up to the last of its checks
CreateUserPasses(tok, body) ==
    /\ GetAdminUser(tok).code = 200
    /\ Strip(body.name) # <<>> /\ Strip(body.email) # <<>>
    /\ Strip(body.username) # <<>> /\ body.password # <<>>
    /\ Len(body.password) >= 6
    /\ body.role \in Roles
    /\ ActiveCount(users) < MAX_USERS
    /\ ~UsernameExists(users, Lower(Strip(body.username)))
    /\ ~EmailExists(users, Lower(Strip(body.email)))

\* create_user, from its entry to the last check
CreateUserChecks(t, tok, body) ==
    IF ~CreateUserPasses(tok, body)
    THEN CreateUser(tok, body)
    ELSE /\ Continue(t, "checked", [tok |-> tok, body |-> body, seen |-> store],
                     "create_user_checked")
         /\ UNCHANGED <<store, tokens, clock, creds, outbox, resp>>

\* create_user, from _auto_id("users") to the return
CreateUserAppend(t) ==
    LET l == tasks[t].local
        cu == Get(GetAdminUser(l.tok).user)
        username == Lower(Strip(l.body.username))
    IN  /\ users' = Append(users,
                NewUser(AutoId(next_id, "users"), Strip(l.body.name),
                        Lower(Strip(l.body.email)), username, l.body.password,
                        l.body.role))
        /\ LogActivity(cu.user_id, cu.username, "CREATE_USER",
                       Some(<<"Created user", username, l.body.role>>))
        /\ next_id' = Bump(Bump(next_id, "users", 1), "activity_logs", 1)
        /\ Respond("create_user", 200, "", l.tok, [body |-> l.body])
        /\ UNCHANGED <<templates, message_logs, campaigns, tokens, clock, creds, outbox>>

\* send_bulk_message, from its entry to the read of the uploaded file
SendBulkRead(t, tok, form) ==
    IF \/ GetCurrentUser(tok).code # 200
       \/ form.template_id # <<>> /\ ~IsSome(ParseInt(form.template_id))
       \/ ~IsSome(form.recipients)
    THEN SendBulkMessage(tok, form, <<>>)
    ELSE /\ Continue(t, "resolved", [tok |-> tok, form |-> form, seen |-> store],
                     IF IsSome(form.csv) THEN "csv_read" ELSE "none")
         /\ UNCHANGED <<store, tokens, clock, creds, outbox, resp>>

\* send_bulk_message, from the recipients resolved to campaigns.append
SendBulkLookup(t) ==
    LET l == tasks[t].local
        form == l.form
        tid == IF form.template_id = <<>> THEN None ELSE ParseInt(form.template_id)
        recs == IF IsSome(form.csv) THEN CsvRecipients(Get(form.csv))
                ELSE Get(form.recipients)
        i == IF IsSome(tid) THEN FindById(templates, Get(tid)) ELSE 0
    IN  IF recs = <<>> \/ ~IsSome(tid) \/ i = 0
        THEN SendBulkMessage(l.tok, form, <<>>)
        ELSE LET campaign ==
                    [id |-> AutoId(next_id, "campaigns"), name |-> form.campaign_name,
                     template_id |-> Get(tid), template_name |-> templates[i].name,
                     total_recipients |-> Len(recs),
                     sent_count |-> 0, delivered_count |-> 0,
                     read_count |-> 0, failed_count |-> 0,
                     status |-> "running",
                     created_by |-> Get(GetCurrentUser(l.tok).user).user_id,
                     created_at |-> clock, completed_at |-> None]
                 ids == Bump(next_id, "campaigns", 1)
             IN  /\ campaigns' = Append(campaigns, campaign)
                 /\ next_id' = ids
                 /\ Continue(t, "sending",
                        [tok |-> l.tok, form |-> form, recs |-> recs,
                         tmpl |-> templates[i], campaign |-> Len(campaigns) + 1,
                         k |-> 1, sent_count |-> 0, failed_count |-> 0,
                         results |-> <<>>,
                         seen |-> <<users, templates, message_logs,
                                    Append(campaigns, campaign), activity_logs, ids>>],
                        "none")
                 /\ UNCHANGED <<users, templates, message_logs, activity_logs,
                                tokens, clock, creds, outbox, resp>>

\* send_bulk_message, one turn of the loop over the recipients; result is
\* what the gateway returns if the turn calls it
SendBulkRecipient(t, result) ==
    LET l == tasks[t].local
        rec == l.recs[l.k]
        r_phone == Strip(rec.phone)
    IN  IF ~BulkCallsGateway(rec)
        THEN /\ Continue(t, "sending",
                    [l EXCEPT !.k = @ + 1, !.failed_count = @ + 1], "none")
             /\ UNCHANGED <<store, tokens, clock, creds, outbox, resp>>
        ELSE LET log == NewMessageLog(AutoId(next_id, "message_logs"), result,
                            r_phone, rec.name, "bulk", Some(l.tmpl.id),
                            Some(l.tmpl.name), Preview(l.tmpl.body),
                            Get(GetCurrentUser(l.tok).user).user_id)
                 ids == Bump(next_id, "message_logs", 1)
             IN  /\ outbox' = Append(outbox,
                        TemplatePayload(r_phone, l.tmpl.name, rec.variables,
                                        l.tmpl.language, None))
                 /\ message_logs' = Append(message_logs, log)
                 /\ next_id' = ids
                 /\ Continue(t, "sending",
                        [l EXCEPT !.k = @ + 1,
                                  !.sent_count = IF result.success THEN @ + 1 ELSE @,
                                  !.failed_count = IF result.success THEN @ ELSE @ + 1,
                                  !.results = Append(@, result),
                                  !.seen = <<users, templates,
                                             Append(message_logs, log), campaigns,
                                             activity_logs, ids>>],
                        "gateway_call")
                 /\ UNCHANGED <<users, templates, campaigns, activity_logs,
                                tokens, clock, creds, resp>>

\* send_bulk_message, from the end of the loop to the return
SendBulkFinalize(t) ==
    LET l == tasks[t].local
        cu == Get(GetCurrentUser(l.tok).user)
    IN  /\ campaigns' = [campaigns EXCEPT ![l.campaign] =
                [@ EXCEPT !.sent_count = l.sent_count,
                          !.failed_count = l.failed_count,
                          !.status = "completed",
                          !.completed_at = Some(clock)]]
        /\ LogActivity(cu.user_id, cu.username, "BULK_SEND",
               Some(<<"Campaign", l.form.campaign_name,
                      "Sent", l.sent_count, "Failed", l.failed_count>>))
        /\ next_id' = Bump(next_id, "activity_logs", 1)
        /\ Respond("send_bulk_message", 200, "", l.tok,
               [form |-> l.form, results |-> l.results])
        /\ UNCHANGED <<users, templates, message_logs, tokens, clock, creds, outbox>>

----------------------------------------------------------------------------
(* routes/webhooks.py *)

\* errors[0].get("title", "Unknown error") if errors else "Failed", where
\* errors is status_update.get("errors", [{}]): a list of optional titles
ErrorTitle(errors) ==
    IF errors = <<>> THEN "Failed"
    ELSE IF IsSome(errors[1]) THEN Get(errors[1])
    ELSE "Unknown error"

\* for contrast, a lookup that settles for the first log
FindByMessageIdOrFirst(logs, msg_id) == IF logs = <<>> THEN 0 ELSE 1

\* next((l for l in message_logs if l.get("message_id") == msg_id), None):
\* the index of the first log with that provider message id, 0 when none
FindByMessageId(logs, msg_id) ==
    IF \E i \in 1..Len(logs) : logs[i].message_id = Some(msg_id)
    THEN CHOOSE i \in 1..Len(logs) :
            /\ logs[i].message_id = Some(msg_id)
            /\ \A j \in 1..(i - 1) : logs[j].message_id # Some(msg_id)
    ELSE 0

\* the effect of one status update on the log it matches
ApplyStatus(log, ev) ==
    LET status == Get(ev.status)
    IN  [log EXCEPT
            !.status = status,
            !.delivered_at = IF status = "delivered" THEN Some(clock) ELSE @,
            !.read_at = IF status = "read" THEN Some(clock) ELSE @,
            !.error_message = IF status = "failed"
                              THEN Some(ErrorTitle(ev.errors)) ELSE @]

\* the loop over the status updates of a webhook POST, in order
RECURSIVE ApplyStatuses(_, _)
ApplyStatuses(logs, events) ==
    IF events = <<>> THEN logs
    ELSE LET ev == Head(events)
             i == IF IsSome(ev.id) THEN FindByMessageId(logs, Get(ev.id)) ELSE 0
         IN  IF IsSome(ev.id) /\ Get(ev.id) # "" /\ IsSome(ev.status)
                /\ Get(ev.status) # "" /\ i # 0
             THEN ApplyStatuses([logs EXCEPT ![i] = ApplyStatus(@, ev)], Tail(events))
             ELSE ApplyStatuses(logs, Tail(events))

\* POST /api/webhook/: events are the status updates of the envelope, flattened
\* (entry -> changes -> value.statuses); the route has no guard
ReceiveWebhook(events) ==
    /\ message_logs' = ApplyStatuses(message_logs, events)
    /\ Respond("receive_webhook", 200, "", None, [events |-> events])
    /\ UNCHANGED <<users, templates, campaigns, activity_logs, next_id,
                   tokens, clock, creds, outbox>>

----------------------------------------------------------------------------
(* The state after import: store.py has seeded one admin and the samples *)

Init ==
    /\ users = <<SeedAdmin>>
    /\ templates = SeedTemplates
    /\ message_logs = <<>>
    /\ campaigns = <<>>
    /\ activity_logs = <<>>
    /\ next_id = SeedNextId
    /\ tokens = {}
    /\ clock = 0
    /\ creds \in BOOLEAN
    /\ outbox = <<>>
    /\ resp = [op |-> "import", code |-> 0, detail |-> "", tok |-> None, arg |-> <<>>]
    /\ tasks = [t \in TaskIds |-> IdleTask]
    /\ loop = 0

----------------------------------------------------------------------------
(* Bounds of the model *)

MaxUsers == 2       \* user records in the store
MaxTokens == 2      \* tokens issued
MaxActivity == 3    \* activity-log entries
MaxTicks == 1       \* advances of the clock

\* the clock advances a token lifetime at a time
TickHours == JWT_EXPIRY_HOURS

----------------------------------------------------------------------------
(* Requests *)

\* a token signed with a key that is not the server's
ForgedToken ==
    [user_id |-> 1, username |-> ADMIN_USERNAME, role |-> "admin",
     exp |-> clock + JWT_EXPIRY_HOURS, iat |-> clock, key |-> "guessed-key"]

\* the tokens issued so far, as a request carries them
IssuedTokens == {Some(t) : t \in tokens}

\* what a request may carry as its bearer token
TokenInputs == {None, Some(ForgedToken)} \cup IssuedTokens

Secret == <<"s","e","c","r","e","t">>
Bob == <<"b","o","b">>
Eve == <<"e","v","e">>
BobMail == <<"b","o","b","@","x">>
EveMail == <<"e","v","e","@","x">>

LoginBodies ==
    { [username |-> <<" ">> \o ADMIN_USERNAME, password |-> ADMIN_PASSWORD],
      [username |-> ADMIN_USERNAME, password |-> Secret],
      [username |-> Bob, password |-> Secret],
      [username |-> <<"B","o","b"," ">>, password |-> Secret] }

CreateUserBodies ==
    { [name |-> <<"B">>, email |-> <<" ","B","o","b","@","X">>,
       username |-> <<"B","o","b"," ">>, password |-> Secret, role |-> "operator"],
      [name |-> <<"E">>, email |-> EveMail, username |-> Eve,
       password |-> Secret, role |-> "admin"],
      [name |-> <<"A">>, email |-> <<"a","@","x">>,
       username |-> <<" ","A","D","M","I","N">>, password |-> Secret, role |-> "viewer"],
      [name |-> <<"E">>, email |-> Upper(BobMail), username |-> Eve,
       password |-> Secret, role |-> "viewer"],
      [name |-> <<"A">>, email |-> <<"a","@","x">>,
       username |-> <<"A","d","m","i","n">>, password |-> <<"p","w">>, role |-> "viewer"] }

NoUserUpdate == [name |-> None, email |-> None, role |-> None, is_active |-> None]

UpdateUserBodies ==
    { [NoUserUpdate EXCEPT !.is_active = Some(FALSE)],
      [NoUserUpdate EXCEPT !.is_active = Some(TRUE)],
      [NoUserUpdate EXCEPT !.role = Some("viewer")],
      [NoUserUpdate EXCEPT !.name = Some(<<"N">>), !.email = Some(ADMIN_EMAIL)] }

\* the ids of the user records and one id that no record has
UserIds == 1..(Len(users) + 1)

----------------------------------------------------------------------------
(* The user-management specification: login, the three user mutations and *)
(* the clock.                                                              *)

DoLogin == \E body \in LoginBodies :
    /\ Cardinality(tokens) < MaxTokens
    /\ Len(activity_logs) < MaxActivity
    /\ Login(body)

DoCreateUser == \E tok \in IssuedTokens, body \in CreateUserBodies :
    /\ Len(activity_logs) < MaxActivity
    /\ CreateUser(tok, body)
    /\ Len(users') <= MaxUsers

DoUpdateUser == \E tok \in IssuedTokens, id \in UserIds, body \in UpdateUserBodies :
    /\ Len(activity_logs) < MaxActivity
    /\ UpdateUser(tok, id, body)

DoDeleteUser == \E tok \in IssuedTokens, id \in UserIds :
    /\ Len(activity_logs) < MaxActivity
    /\ DeleteUser(tok, id)

DoTick ==
    /\ clock + TickHours <= MaxTicks * TickHours
    /\ Tick(TickHours)

NextUsers == DoLogin \/ DoCreateUser \/ DoUpdateUser \/ DoDeleteUser \/ DoTick

SpecUsers == Init /\ [][NextUsers]_vars

----------------------------------------------------------------------------
(* The licence-limit specification: one admin session that creates users   *)
(* with fresh usernames and emails and deactivates and reactivates the     *)
(* first of them, far enough to fill the MAX_USERS active seats.           *)

MaxLimitSlack == 3  \* requests of a session beyond the MAX_USERS seats

DigitChar(k) == <<"0","1","2","3","4","5","6","7","8","9">>[k + 1]

\* a valid create_user body for the k-th user record
FreshUserBody(k) ==
    [name |-> <<"U">>, email |-> <<"U", DigitChar(k), "@", "x">>,
     username |-> <<"U", DigitChar(k)>>, password |-> Secret, role |-> "operator"]

LimitLogin ==
    /\ tokens = {}
    /\ Login([username |-> ADMIN_USERNAME, password |-> ADMIN_PASSWORD])

LimitCreateUser == \E tok \in IssuedTokens :
    /\ Len(users) <= MAX_USERS
    /\ Len(activity_logs) < MAX_USERS + MaxLimitSlack
    /\ CreateUser(tok, FreshUserBody(Len(users) + 1))

LimitDeleteUser == \E tok \in IssuedTokens :
    /\ Len(activity_logs) < MAX_USERS + MaxLimitSlack
    /\ DeleteUser(tok, 2)

LimitUpdateUser == \E tok \in IssuedTokens :
    /\ Len(activity_logs) < MAX_USERS + MaxLimitSlack
    /\ UpdateUser(tok, 2, [NoUserUpdate EXCEPT !.is_active = Some(TRUE)])

NextLimit == LimitLogin \/ LimitCreateUser \/ LimitDeleteUser \/ LimitUpdateUser

SpecLimit == Init /\ [][NextLimit]_vars

----------------------------------------------------------------------------
(* The template specification: the admin creates an operator account, both *)
(* log in, and templates are created, edited, approved and deleted.        *)

MaxTemplateOps == 4     \* activity-log entries of the template specification

AdminLogin == [username |-> ADMIN_USERNAME, password |-> ADMIN_PASSWORD]
BobLogin == [username |-> Bob, password |-> Secret]
BobBody ==
    [name |-> <<"B">>, email |-> BobMail, username |-> Bob,
     password |-> Secret, role |-> "operator"]

CreateTemplateBodies ==
    { [name |-> <<" ","P","r","o","m","o"," ","O","n","e">>,
       category |-> <<"m","a","r","k","e","t","i","n","g">>, language |-> "en",
       body |-> <<"H","i"," ","{","{","1","}","}"," ">>, header |-> <<>>,
       footer |-> <<" ">>, button_text |-> <<>>, button_url |-> <<>>],
      [name |-> <<"S","e","r","v","i","c","e"," ","U","p","d","a","t","e">>,
       category |-> <<"U","T","I","L","I","T","Y">>, language |-> "en",
       body |-> <<"H","i">>, header |-> <<>>,
       footer |-> <<>>, button_text |-> <<>>, button_url |-> <<>>],
      [name |-> <<"n","e","w","s">>,
       category |-> <<"N","E","W","S">>, language |-> "en",
       body |-> <<"H","i">>, header |-> <<>>,
       footer |-> <<>>, button_text |-> <<>>, button_url |-> <<>>],
      [name |-> <<"G","r","o","u","p"," ","I","n","v","i","t","e"," ">>,
       category |-> <<"U","T","I","L","I","T","Y">>, language |-> "en",
       body |-> <<" ">>, header |-> <<>>,
       footer |-> <<>>, button_text |-> <<>>, button_url |-> <<>>] }

NoTemplateUpdate ==
    [body |-> None, header |-> None, footer |-> None, button_text |-> None,
     button_url |-> None, status |-> None]

UpdateTemplateBodies ==
    { [NoTemplateUpdate EXCEPT !.status = Some("pending")],
      [NoTemplateUpdate EXCEPT !.status = Some("rejected")],
      [NoTemplateUpdate EXCEPT !.body = Some(<<"B","y","e">>), !.header = Some(<<>>)] }

\* a seeded template and the first id a created template gets
TemplateIds == {1, Len(Samples) + 1}

TplLogin == \E body \in {AdminLogin, BobLogin} :
    /\ Cardinality(tokens) < MaxTokens
    /\ Len(activity_logs) < MaxTemplateOps
    /\ Login(body)

TplCreateUser == \E tok \in IssuedTokens :
    /\ Len(users) < MaxUsers
    /\ Len(activity_logs) < MaxTemplateOps
    /\ CreateUser(tok, BobBody)

DoCreateTemplate == \E tok \in IssuedTokens, body \in CreateTemplateBodies :
    /\ Len(activity_logs) < MaxTemplateOps
    /\ CreateTemplate(tok, body)

\* the edits explored are those of sessions whose role claim is not admin
DoUpdateTemplate ==
    \E tok \in IssuedTokens, id \in TemplateIds, body \in UpdateTemplateBodies :
        /\ Get(tok).role # "admin"
        /\ Len(activity_logs) < MaxTemplateOps
        /\ UpdateTemplate(tok, id, body)

DoDeleteTemplate == \E tok \in IssuedTokens, id \in TemplateIds :
    /\ Len(activity_logs) < MaxTemplateOps
    /\ DeleteTemplate(tok, id)

DoApproveTemplate == \E tok \in IssuedTokens, id \in TemplateIds :
    /\ Len(activity_logs) < MaxTemplateOps
    /\ ApproveTemplate(tok, id)

NextTemplates ==
    \/ TplLogin \/ TplCreateUser \/ DoCreateTemplate \/ DoUpdateTemplate
    \/ DoDeleteTemplate \/ DoApproveTemplate

SpecTemplates == Init /\ [][NextTemplates]_vars

----------------------------------------------------------------------------
(* The messaging specification: an admin session sends single and bulk     *)
(* messages, the provider posts status updates, and time passes.           *)

MaxMessageOps == 2  \* activity-log entries of the messaging specification
MaxLogs == 1        \* message logs in the store when a send is accepted

\* the provider message ids the gateway answers a single and a bulk send with
SingleMsgIds == {"wamid.A"}
BulkMsgIds == {"wamid.B"}
ErrorInputs == {"Request timed out"}

GoodPhone == <<"+","9","1"," ","9","8","7","6","5","-","4","3","2","1","0">>
LocalPhone == <<"9","8","7","6","5","4","3","2","1","0">>
BadPhone == <<"a","b","c">>

SendBodies ==
    { [phone |-> <<" ">> \o GoodPhone, name |-> <<"A","n","n"," ">>,
       type |-> "template", template_id |-> Some(2), variables |-> <<"Ann">>,
       text |-> <<>>],
      [phone |-> LocalPhone, name |-> <<>>, type |-> "text",
       template_id |-> None, variables |-> <<>>, text |-> <<"H","i">>],
      [phone |-> BadPhone, name |-> <<>>, type |-> "text",
       template_id |-> None, variables |-> <<>>, text |-> <<"H","i">>],
      [phone |-> GoodPhone, name |-> <<>>, type |-> "template",
       template_id |-> Some(9), variables |-> <<>>, text |-> <<>>],
      [phone |-> GoodPhone, name |-> <<>>, type |-> "template",
       template_id |-> None, variables |-> <<>>, text |-> <<"H","i">>] }

Recipient(phone) == [phone |-> phone, name |-> <<"A","n","n">>, variables |-> <<>>]

RecipientLists ==
    { <<Recipient(GoodPhone), Recipient(BadPhone), Recipient(LocalPhone)>>,
      <<Recipient(LocalPhone)>>,
      <<Recipient(<<" ">>)>>,
      <<>> }

BulkForms ==
    {[campaign_name |-> <<"C">>, template_id |-> <<"1">>, recipients |-> Some(r),
      csv |-> None] : r \in RecipientLists}
    \cup
    {[campaign_name |-> <<"C">>, template_id |-> t,
      recipients |-> Some(<<Recipient(LocalPhone)>>), csv |-> None] :
        t \in {<<>>, <<"0">>, <<"9">>, <<"x">>}}
    \cup
    {[campaign_name |-> <<"C">>, template_id |-> <<" ","1">>, recipients |-> None,
      csv |-> None],
     [campaign_name |-> <<"C">>, template_id |-> <<"1">>, recipients |-> Some(<<>>),
      csv |-> Some(<<[phone |-> <<" ">>, name |-> <<>>, variables |-> <<>>],
                     [phone |-> LocalPhone \o <<" ">>, name |-> <<>>,
                      variables |-> <<"v">>]>>)]}

\* sequences of at most n elements of S
SeqsUpTo(S, n) == UNION {[1..k -> S] : k \in 0..n}

EvDelivered == [id |-> Some("wamid.A"), status |-> Some("delivered"), errors |-> <<None>>]
EvRead == [id |-> Some("wamid.A"), status |-> Some("read"), errors |-> <<None>>]
EvFailed == [id |-> Some("wamid.A"), status |-> Some("failed"),
             errors |-> <<Some("Blocked")>>]
EvDeleted == [id |-> Some("wamid.B"), status |-> Some("deleted"), errors |-> <<None>>]
EvUnknownId == [id |-> Some("wamid.X"), status |-> Some("delivered"), errors |-> <<None>>]
EvNoId == [id |-> None, status |-> Some("read"), errors |-> <<None>>]

\* the status updates of one webhook POST
WebhookBatches ==
    { <<>>, <<EvDelivered>>, <<EvRead>>, <<EvFailed>>, <<EvDeleted>>,
      <<EvUnknownId>>, <<EvDelivered, EvRead>>, <<EvNoId, EvUnknownId>> }

\* one session: the messaging handlers treat every valid token alike
MsgLogin ==
    /\ tokens = {}
    /\ Len(activity_logs) < MaxMessageOps
    /\ Login(AdminLogin)

DoSendSingleMessage ==
    \E tok \in IssuedTokens, body \in SendBodies,
       results \in SeqsUpTo(PostResults(SingleMsgIds, GatewayErrors), 1) :
        /\ Len(message_logs) < MaxLogs
        /\ Len(activity_logs) < MaxMessageOps
        /\ SendSingleMessage(tok, body, results)

DoSendBulkMessage ==
    \E tok \in IssuedTokens, form \in BulkForms,
       results \in SeqsUpTo(PostResults(BulkMsgIds, ErrorInputs), 2) :
        /\ Len(message_logs) < MaxLogs
        /\ Len(activity_logs) < MaxMessageOps
        /\ SendBulkMessage(tok, form, results)

DoReceiveWebhook == \E events \in WebhookBatches :
    ReceiveWebhook(events)

NextMessages ==
    MsgLogin \/ DoSendSingleMessage \/ DoSendBulkMessage \/ DoReceiveWebhook \/ DoTick

SpecMessages == Init /\ [][NextMessages]_vars

----------------------------------------------------------------------------
(* The store specification: every handler, with one or two requests each,  *)
(* in sessions of the admin and of an operator the admin creates.          *)

MaxStoreOps == 5    \* activity-log entries of the store specification

StoreUpdateBodies ==
    { [NoUserUpdate EXCEPT !.role = Some("viewer")],
      [NoUserUpdate EXCEPT !.is_active = Some(TRUE)] }

StoreSendBody ==
    [phone |-> LocalPhone, name |-> <<>>, type |-> "text",
     template_id |-> None, variables |-> <<>>, text |-> <<"H","i">>]

StoreBulkForm ==
    [campaign_name |-> <<"C">>, template_id |-> <<"2">>,
     recipients |-> Some(<<Recipient(LocalPhone)>>), csv |-> None]

StoreTemplateBody ==
    [name |-> <<"n","e","w","s">>, category |-> <<"U","T","I","L","I","T","Y">>,
     language |-> "en", body |-> <<"H","i">>, header |-> <<>>,
     footer |-> <<>>, button_text |-> <<>>, button_url |-> <<>>]

StorePasswordBody == [current_password |-> Secret, new_password |-> ADMIN_PASSWORD]

StoreLogin == \E body \in {AdminLogin, BobLogin} :
    /\ Len(activity_logs) < MaxStoreOps
    /\ Login(body)

StoreLogout == \E tok \in IssuedTokens :
    /\ Len(activity_logs) < MaxStoreOps
    /\ Get(tok).role # "admin"
    /\ Logout(tok)

StoreChangePassword == \E tok \in IssuedTokens :
    /\ Len(activity_logs) < MaxStoreOps
    /\ ChangePassword(tok, StorePasswordBody)

StoreCreateUser == \E tok \in IssuedTokens :
    /\ Len(users) < MaxUsers
    /\ Len(activity_logs) < MaxStoreOps
    /\ CreateUser(tok, BobBody)

StoreUpdateUser == \E tok \in IssuedTokens, body \in StoreUpdateBodies :
    /\ Len(activity_logs) < MaxStoreOps
    /\ UpdateUser(tok, 2, body)

StoreDeleteUser == \E tok \in IssuedTokens, user_id \in UserIds :
    /\ Len(activity_logs) < MaxStoreOps
    /\ DeleteUser(tok, user_id)

StoreCreateTemplate == \E tok \in IssuedTokens :
    /\ Len(activity_logs) < MaxStoreOps
    /\ Get(tok).role = "admin"
    /\ CreateTemplate(tok, StoreTemplateBody)

StoreUpdateTemplate == \E tok \in IssuedTokens :
    /\ Len(activity_logs) < MaxStoreOps
    /\ Get(tok).role = "admin"
    /\ UpdateTemplate(tok, 1, [NoTemplateUpdate EXCEPT !.body = Some(<<"B","y","e">>)])

StoreDeleteTemplate == \E tok \in IssuedTokens :
    /\ Len(activity_logs) < MaxStoreOps
    /\ DeleteTemplate(tok, 1)

StoreApproveTemplate == \E tok \in IssuedTokens :
    /\ Len(activity_logs) < MaxStoreOps
    /\ ApproveTemplate(tok, Len(Samples) + 1)

StoreSendSingleMessage ==
    \E tok \in IssuedTokens, results \in SeqsUpTo(PostResults(SingleMsgIds, {}), 1) :
        /\ Len(message_logs) < MaxLogs
        /\ Len(activity_logs) < MaxStoreOps
        /\ Get(tok).role # "admin"
        /\ SendSingleMessage(tok, StoreSendBody, results)

StoreSendBulkMessage ==
    \E tok \in IssuedTokens, results \in SeqsUpTo(PostResults(BulkMsgIds, {}), 1) :
        /\ Len(message_logs) < MaxLogs
        /\ Len(activity_logs) < MaxStoreOps
        /\ Get(tok).role # "admin"
        /\ SendBulkMessage(tok, StoreBulkForm, results)

StoreReceiveWebhook == \E events \in {<<EvDelivered>>, <<EvDeleted>>} :
    ReceiveWebhook(events)

NextStore ==
    \/ StoreLogin \/ StoreLogout \/ StoreChangePassword
    \/ StoreCreateUser \/ StoreUpdateUser \/ StoreDeleteUser
    \/ StoreCreateTemplate \/ StoreUpdateTemplate \/ StoreDeleteTemplate
    \/ StoreApproveTemplate
    \/ StoreSendSingleMessage \/ StoreSendBulkMessage \/ StoreReceiveWebhook

SpecStore == Init /\ [][NextStore]_vars

----------------------------------------------------------------------------
(* The guard specification: every guarded handler, called with no token,   *)
(* with a forged one and with the admin's tokens, fresh and expired.       *)

MaxAuthOps == 2     \* activity-log entries of the guard specification

AuthPasswordBody == [current_password |-> ADMIN_PASSWORD, new_password |-> Secret]

\* one session, opened before or after the clock has advanced
AuthLogin ==
    /\ tokens = {}
    /\ Login(AdminLogin)
    /\ Len(activity_logs') <= MaxAuthOps

AuthLogout == \E tok \in TokenInputs :
    /\ Logout(tok)
    /\ Len(activity_logs') <= MaxAuthOps

AuthChangePassword == \E tok \in TokenInputs :
    /\ ChangePassword(tok, AuthPasswordBody)
    /\ Len(activity_logs') <= MaxAuthOps

AuthCreateUser == \E tok \in TokenInputs :
    /\ CreateUser(tok, BobBody)
    /\ Len(activity_logs') <= MaxAuthOps

AuthUpdateUser == \E tok \in TokenInputs :
    /\ UpdateUser(tok, 1, [NoUserUpdate EXCEPT !.role = Some("viewer")])
    /\ Len(activity_logs') <= MaxAuthOps

AuthDeleteUser == \E tok \in TokenInputs, user_id \in {1, 2} :
    /\ DeleteUser(tok, user_id)
    /\ Len(activity_logs') <= MaxAuthOps

AuthCreateTemplate == \E tok \in TokenInputs :
    /\ CreateTemplate(tok, StoreTemplateBody)
    /\ Len(activity_logs') <= MaxAuthOps

AuthUpdateTemplate == \E tok \in TokenInputs :
    /\ UpdateTemplate(tok, 1, [NoTemplateUpdate EXCEPT !.status = Some("pending")])
    /\ Len(activity_logs') <= MaxAuthOps

AuthDeleteTemplate == \E tok \in TokenInputs :
    /\ DeleteTemplate(tok, 1)
    /\ Len(activity_logs') <= MaxAuthOps

AuthApproveTemplate == \E tok \in TokenInputs :
    /\ ApproveTemplate(tok, 1)
    /\ Len(activity_logs') <= MaxAuthOps

AuthSendSingleMessage ==
    \E tok \in TokenInputs, results \in SeqsUpTo(PostResults(SingleMsgIds, {}), 1) :
        /\ SendSingleMessage(tok, StoreSendBody, results)
        /\ Len(activity_logs') <= MaxAuthOps

AuthSendBulkMessage ==
    \E tok \in TokenInputs, results \in SeqsUpTo(PostResults(BulkMsgIds, {}), 1) :
        /\ SendBulkMessage(tok, StoreBulkForm, results)
        /\ Len(activity_logs') <= MaxAuthOps

NextAuth ==
    \/ AuthLogin \/ DoTick \/ AuthLogout \/ AuthChangePassword
    \/ AuthCreateUser \/ AuthUpdateUser \/ AuthDeleteUser
    \/ AuthCreateTemplate \/ AuthUpdateTemplate \/ AuthDeleteTemplate
    \/ AuthApproveTemplate \/ AuthSendSingleMessage \/ AuthSendBulkMessage

SpecAuth == Init /\ [][NextAuth]_vars

----------------------------------------------------------------------------
(* The phone specification: validate_phone and _normalize_phone applied to *)
(* strings of digits of every length up to the bound, with a separator or  *)
(* a letter in the middle and whitespace around.                           *)

MaxPhoneDigits == 16    \* digits of a phone number

DigitCycle == <<"1","2","3","4","5","6","7","8","9","0">>

\* n digits that begin with lead, as far as n reaches
PhoneDigits(n, lead) ==
    [i \in 1..n |-> IF i <= Len(lead) THEN lead[i] ELSE DigitCycle[(i % 10) + 1]]

\* the digits with mid put in their middle and ws put around them
Decorated(n, lead, mid, ws) ==
    LET d == PhoneDigits(n, lead)
    IN  ws \o SubSeq(d, 1, n \div 2) \o mid \o SubSeq(d, (n \div 2) + 1, n) \o ws

PhoneInputs ==
    { Decorated(n, lead, mid, ws) :
        n \in 0..MaxPhoneDigits,
        lead \in {<<"9","1">>, <<"9","8">>},
        mid \in {<<>>, <<" ">>, <<"-">>, <<"+">>, <<"\t">>, <<"a">>, <<"-","a">>},
        ws \in {<<>>, <<" ">>, <<"\t"," ">>} }
    \cup {GoodPhone, BadPhone}

InitPhones ==
    /\ users = <<SeedAdmin>>
    /\ templates = SeedTemplates
    /\ message_logs = <<>>
    /\ campaigns = <<>>
    /\ activity_logs = <<>>
    /\ next_id = SeedNextId
    /\ tokens = {}
    /\ clock = 0
    /\ creds = FALSE
    /\ outbox = <<>>
    /\ \E p \in PhoneInputs :
        resp = [op |-> "phone", code |-> 0, detail |-> "", tok |-> None,
                arg |-> [phone |-> p]]
    /\ tasks = [t \in TaskIds |-> IdleTask]
    /\ loop = 0

\* wa.validate_phone(phone)
PhoneValidate ==
    /\ resp.op = "phone"
    /\ resp' = [op |-> "validate_phone", code |-> 0, detail |-> "", tok |-> None,
                arg |-> [phone |-> resp.arg.phone,
                         valid |-> ValidatePhone(resp.arg.phone)]]
    /\ UNCHANGED <<store, tokens, clock, creds, outbox, tasks, loop>>

\* _normalize_phone(to_phone)
PhoneNormalize ==
    /\ resp.op = "phone"
    /\ resp' = [op |-> "normalize_phone", code |-> 0, detail |-> "", tok |-> None,
                arg |-> [phone |-> resp.arg.phone,
                         normalized |-> NormalizePhone(resp.arg.phone)]]
    /\ UNCHANGED <<store, tokens, clock, creds, outbox, tasks, loop>>

NextPhones == PhoneValidate \/ PhoneNormalize

SpecPhones == InitPhones /\ [][NextPhones]_vars

----------------------------------------------------------------------------
(* The event-loop specification: up to MaxTasks requests in flight, the     *)
(* loop running one task at a time from one await to the next.             *)

MaxLoopOps == 3     \* requests accepted that write an ActivityLog

LoopOps == {"login", "create_user", "send_bulk_message", "get_campaigns"}

InFlight == {t \in TaskIds : tasks[t].pc # "idle"}

LoopUserBodies ==
    { BobBody,
      [name |-> <<"B">>, email |-> EveMail, username |-> <<"B","o","b"," ">>,
       password |-> Secret, role |-> "viewer"] }

LoopForms ==
    { [campaign_name |-> <<"C">>, template_id |-> <<"1">>,
       recipients |-> Some(<<Recipient(LocalPhone), Recipient(BadPhone)>>),
       csv |-> None],
      [campaign_name |-> <<"C">>, template_id |-> <<"2">>, recipients |-> Some(<<>>),
       csv |-> Some(<<[phone |-> LocalPhone, name |-> <<>>, variables |-> <<>>]>>)],
      [campaign_name |-> <<"C">>, template_id |-> <<"9">>,
       recipients |-> Some(<<Recipient(LocalPhone)>>), csv |-> None] }

\* the server takes a request off the socket and makes a task of it
LoopAccept == \E t \in TaskIds, op \in LoopOps :
    /\ loop = 0
    /\ tasks[t].pc = "idle"
    /\ Len(activity_logs) + Cardinality(InFlight) < MaxLoopOps
    /\ tasks' = [tasks EXCEPT ![t] = [op |-> op, pc |-> "start", local |-> <<>>]]
    /\ UNCHANGED <<store, tokens, clock, creds, outbox, resp, loop>>

\* the loop, running no task, takes up one that is waiting
LoopResume == \E t \in TaskIds :
    /\ loop = 0
    /\ tasks[t].pc # "idle"
    /\ loop' = t
    /\ UNCHANGED <<store, tokens, clock, creds, outbox, resp, tasks>>

LoopLogin == \E t \in TaskIds :
    /\ Running(t) /\ tasks[t].op = "login"
    /\ Login(AdminLogin)

LoopGetCampaigns == \E t \in TaskIds, tok \in TokenInputs :
    /\ Running(t) /\ tasks[t].op = "get_campaigns"
    /\ GetCampaigns(tok)

LoopCreateUserChecks == \E t \in TaskIds, tok \in IssuedTokens, body \in LoopUserBodies :
    /\ Running(t) /\ tasks[t].op = "create_user" /\ tasks[t].pc = "start"
    /\ CreateUserChecks(t, tok, body)

LoopCreateUserAppend == \E t \in TaskIds :
    /\ Running(t) /\ tasks[t].op = "create_user" /\ tasks[t].pc = "checked"
    /\ CreateUserAppend(t)

LoopSendBulkRead == \E t \in TaskIds, tok \in IssuedTokens, form \in LoopForms :
    /\ Running(t) /\ tasks[t].op = "send_bulk_message" /\ tasks[t].pc = "start"
    /\ SendBulkRead(t, tok, form)

LoopSendBulkLookup == \E t \in TaskIds :
    /\ Running(t) /\ tasks[t].op = "send_bulk_message" /\ tasks[t].pc = "resolved"
    /\ SendBulkLookup(t)

LoopSendBulkRecipient == \E t \in TaskIds, result \in PostResults(BulkMsgIds, ErrorInputs) :
    /\ Running(t) /\ tasks[t].op = "send_bulk_message" /\ tasks[t].pc = "sending"
    /\ tasks[t].local.k <= Len(tasks[t].local.recs)
    /\ SendBulkRecipient(t, result)

LoopSendBulkFinalize == \E t \in TaskIds :
    /\ Running(t) /\ tasks[t].op = "send_bulk_message" /\ tasks[t].pc = "sending"
    /\ tasks[t].local.k > Len(tasks[t].local.recs)
    /\ SendBulkFinalize(t)

NextLoop ==
    \/ LoopAccept \/ LoopResume \/ LoopLogin \/ LoopGetCampaigns
    \/ LoopCreateUserChecks \/ LoopCreateUserAppend
    \/ LoopSendBulkRead \/ LoopSendBulkLookup \/ LoopSendBulkRecipient
    \/ LoopSendBulkFinalize

SpecLoop == Init /\ [][NextLoop]_vars

----------------------------------------------------------------------------
(* Vocabulary of the properties *)

\* the step serves a request of handler op (resp is rewritten by it)
Served(op) == resp' # resp /\ resp'.op = op

\* the request just served carried a token that the guard let through
Authorised(r) == IsSome(r.tok) /\ r.code \notin {401, 403}

\* the index of the user record a token names, 0 when there is none
TokenUser(t) == FindById(users, t.user_id)

----------------------------------------------------------------------------
(* C1 *)

\* C1: in every reachable state at most MAX_USERS users are active; a
\* create_user request made while MAX_USERS users are active fails with 400
\* and adds no user.
C1_AtMostMaxActive ==
    /\ [](ActiveCount(users) <= MAX_USERS)
    /\ [][(Served("create_user") /\ Authorised(resp')
                /\ ActiveCount(users) = MAX_USERS)
            => (resp'.code = 400 /\ users' = users)]_vars

----------------------------------------------------------------------------
(* C2 *)

\* C2: in every reachable state no two user records, active or deactivated,
\* have the same email.
C2_EmailsUnique ==
    \A i, j \in 1..Len(users) : i # j => users[i].email # users[j].email

----------------------------------------------------------------------------
(* C3 *)

UsernamesUnique ==
    \A i, j \in 1..Len(users) : i # j => users[i].username # users[j].username

\* no step changes the username of a user record or drops one
UsernamesKept ==
    /\ Len(users') >= Len(users)
    /\ \A i \in 1..Len(users) : users'[i].username = users[i].username

\* the admin's create_user request names a username that, trimmed and
\* lower-cased, some user record already has
DuplicateUsernameRequest ==
    /\ Served("create_user")
    /\ Authorised(resp')
    /\ \E i \in 1..Len(users) :
            users[i].username = Lower(Strip(resp'.arg.body.username))

\* the request passes the checks create_user makes before the username check
PassesEarlierChecks(body) ==
    /\ Strip(body.name) # <<>> /\ Strip(body.email) # <<>>
    /\ Strip(body.username) # <<>> /\ body.password # <<>>
    /\ Len(body.password) >= 6
    /\ body.role \in {"admin", "operator", "viewer"}
    /\ Cardinality({i \in 1..Len(users) : users[i].is_active # 0}) < MAX_USERS

\* C3 as stated: usernames are unique in every reachable state; create_user
\* with a username that, trimmed and lower-cased, equals an existing one fails
\* with 409 and leaves the users collection unchanged; no other operation
\* changes a username.
C3_DuplicateUsernameIs409 ==
    /\ []UsernamesUnique
    /\ [][DuplicateUsernameRequest => (resp'.code = 409 /\ users' = users)]_vars
    /\ [][UsernamesKept]_vars

\* C3 amended: usernames are unique in every reachable state; create_user
\* with a duplicate username always fails and leaves the users collection
\* unchanged, with 409 when the request passes the earlier checks of the
\* handler and with 400 when one of them rejects it first; no other
\* operation changes a username.
C3_DuplicateUsernameRejected ==
    /\ []UsernamesUnique
    /\ [][DuplicateUsernameRequest =>
            /\ users' = users
            /\ IF PassesEarlierChecks(resp'.arg.body)
               THEN resp'.code = 409 /\ resp'.detail = "Username already exists"
               ELSE resp'.code = 400]_vars
    /\ [][UsernamesKept]_vars

\* a duplicate username was refused with 409 while another user exists
C3_Witness ==
    /\ resp.op = "create_user" /\ resp.code = 409
    /\ resp.detail = "Username already exists"
    /\ Lower(Strip(resp.arg.body.username)) # resp.arg.body.username
    /\ Len(users) >= 2

----------------------------------------------------------------------------
(* C8 *)

\* C8: a request carrying an issued token that has not expired is never
\* answered 401, and never 403 when the token's role claim is admin,
\* whatever the store now says about the token's user (deactivated, role
\* changed).
C8_TokenClaimsDecide ==
    [][(resp' # resp /\ IsSome(resp'.tok) /\ Get(resp'.tok) \in tokens
            /\ Get(resp'.tok).exp > clock)
        => /\ resp'.code # 401
           /\ (Get(resp'.tok).role = "admin" => resp'.code # 403)]_vars

\* an admin route has just served, with 200, a token whose user was already
\* deactivated (create_user and delete_user never touch the caller's record)
C8_Witness ==
    /\ resp.op \in {"create_user", "delete_user"} /\ resp.code = 200
    /\ IsSome(resp.tok)
    /\ TokenUser(Get(resp.tok)) # 0
    /\ users[TokenUser(Get(resp.tok))].is_active = 0

----------------------------------------------------------------------------
(* C9 *)

\* the request asks to deactivate the account that its own token names
SelfDeactivationRequest ==
    /\ \/ Served("delete_user")
       \/ Served("update_user") /\ resp'.arg.body.is_active = Some(FALSE)
    /\ Authorised(resp')
    /\ resp'.arg.user_id = Get(resp'.tok).user_id
    /\ TokenUser(Get(resp'.tok)) # 0

\* C9: a deactivation request whose target is the caller's own account is
\* rejected with 400, leaves the caller's is_active flag as it was and
\* appends no activity-log entry.
C9_NoSelfDeactivation ==
    [][SelfDeactivationRequest =>
        /\ resp'.code = 400
        /\ users'[TokenUser(Get(resp'.tok))].is_active
                = users[TokenUser(Get(resp'.tok))].is_active
        /\ activity_logs' = activity_logs]_vars

----------------------------------------------------------------------------
(* C4 *)

TemplateStatuses == {"pending", "approved"}

\* some template that the step keeps has a different status after it
TemplateStatusChanged ==
    \E i \in 1..Len(templates), j \in 1..Len(templates') :
        /\ templates[i].id = templates'[j].id
        /\ templates[i].status # templates'[j].status

\* C4: every template's approval status is 'pending' or 'approved', and it
\* changes only in a step that serves a request carrying an admin-role
\* token; no request with an operator or viewer token changes it.
C4_StatusChangedOnlyByAdmin ==
    /\ [](\A i \in 1..Len(templates) : templates[i].status \in TemplateStatuses)
    /\ [][TemplateStatusChanged =>
            (IsSome(resp'.tok) /\ Get(resp'.tok).role = "admin")]_vars

----------------------------------------------------------------------------
(* C5 *)

\* the step is an accepted bulk send: it appends a Campaign
AcceptedBulkSend ==
    /\ resp'.op = "send_bulk_message" /\ resp'.code = 200
    /\ Len(campaigns') = Len(campaigns) + 1

\* C5: an accepted bulk send appends exactly one MessageLog per resolved
\* recipient, those with an invalid phone included: with N recipients the
\* message_logs collection grows by exactly N.
C5_OneLogPerRecipient ==
    [][AcceptedBulkSend =>
        Len(message_logs') = Len(message_logs)
                             + campaigns'[Len(campaigns')].total_recipients]_vars

----------------------------------------------------------------------------
(* C6 *)

MessageStatuses == {"sent", "failed", "delivered", "read"}

\* the logs a step appends
NewLogs == SubSeq(message_logs', Len(message_logs) + 1, Len(message_logs'))

\* C6: every MessageLog's status is one of sent, failed, delivered, read; a
\* send writes only sent or failed; delivered and read are written only by
\* the webhook POST handler, whatever status strings its events carry.
C6_StatusVocabulary ==
    /\ [](\A i \in 1..Len(message_logs) : message_logs[i].status \in MessageStatuses)
    /\ [][\A k \in 1..Len(NewLogs) : NewLogs[k].status \in {"sent", "failed"}]_vars
    /\ [][\A i \in 1..Len(message_logs) :
            (message_logs'[i].status # message_logs[i].status
                /\ message_logs'[i].status \in {"delivered", "read"})
            => resp'.op = "receive_webhook"]_vars

----------------------------------------------------------------------------
(* C7 *)

\* C7: delivered_at and read_at are null when a log is created, and once
\* either is set no later step changes its value.
C7_TimestampsSetOnce ==
    /\ [][\A k \in 1..Len(NewLogs) :
            NewLogs[k].delivered_at = None /\ NewLogs[k].read_at = None]_vars
    /\ [][\A i \in 1..Len(message_logs) :
            /\ IsSome(message_logs[i].delivered_at)
                => message_logs'[i].delivered_at = message_logs[i].delivered_at
            /\ IsSome(message_logs[i].read_at)
                => message_logs'[i].read_at = message_logs[i].read_at]_vars

----------------------------------------------------------------------------
(* C10 *)

\* every record of a collection is still there after the step, at the same
\* place and with the same id
Kept(old, new) ==
    /\ Len(new) >= Len(old)
    /\ \A i \in 1..Len(old) : new[i].id = old[i].id

\* the step is a delete_user request that succeeded
DeleteUserDone == resp'.op = "delete_user" /\ resp'.code = 200 /\ users' # users

\* C10: no step removes an entry from users, message_logs, campaigns or
\* activity_logs, nor changes the user a MessageLog or ActivityLog refers
\* to; a delete_user that succeeds changes nothing in the users collection
\* but the target's is_active, which becomes false.
C10_NothingRemoved ==
    [][/\ Kept(users, users')
       /\ Kept(message_logs, message_logs')
       /\ Kept(campaigns, campaigns')
       /\ Kept(activity_logs, activity_logs')
       /\ \A i \in 1..Len(message_logs) :
            message_logs'[i].sent_by = message_logs[i].sent_by
       /\ \A i \in 1..Len(activity_logs) :
            activity_logs'[i].user_id = activity_logs[i].user_id
       /\ DeleteUserDone =>
            /\ FindById(users, resp'.arg.user_id) # 0
            /\ users' = [users EXCEPT
                            ![FindById(users, resp'.arg.user_id)].is_active = 0]
            /\ message_logs' = message_logs
            /\ campaigns' = campaigns]_vars

\* delete_user has just deactivated a user that a MessageLog and an
\* ActivityLog refer to, and the record and both logs are in the store
C10_Witness ==
    /\ resp.op = "delete_user" /\ resp.code = 200
    /\ FindById(users, resp.arg.user_id) # 0
    /\ users[FindById(users, resp.arg.user_id)].is_active = 0
    /\ \E i \in 1..Len(message_logs) : message_logs[i].sent_by = resp.arg.user_id
    /\ \E i \in 1..Len(activity_logs) :
            /\ activity_logs[i].user_id = resp.arg.user_id
            /\ activity_logs[i].action = "LOGIN"

----------------------------------------------------------------------------
(* C11 *)

\* the ids of the records of a collection
IdsOf(coll) == {coll[i].id : i \in 1..Len(coll)}

\* the records of a collection have pairwise distinct ids, all of them
\* handed out by the counter of the collection
IdsDistinct(coll, c) ==
    /\ \A i, j \in 1..Len(coll) : i # j => coll[i].id # coll[j].id
    /\ IdsOf(coll) \subseteq 1..(next_id[c] - 1)

\* the ids a step adds to a collection are the next ones of its counter, in
\* sequence, and greater than every id handed out before
IdsAssignedInSequence(old, new, c) ==
    /\ next_id'[c] >= next_id[c]
    /\ IdsOf(new) \ IdsOf(old) = next_id[c]..(next_id'[c] - 1)
    /\ \A k \in 1..(Len(new) - 1) :
            new[k + 1].id \notin IdsOf(old) => new[k].id < new[k + 1].id

\* C11: in each collection ids are assigned sequentially from 1 and never
\* reused: every newly assigned id is greater than every id assigned before
\* in that collection, also after template deletions, so the ids of a
\* collection are pairwise distinct.
C11_IdsNeverReused ==
    /\ [](/\ IdsDistinct(users, "users")
          /\ IdsDistinct(templates, "templates")
          /\ IdsDistinct(message_logs, "message_logs")
          /\ IdsDistinct(campaigns, "campaigns")
          /\ IdsDistinct(activity_logs, "activity_logs"))
    /\ [][/\ IdsAssignedInSequence(users, users', "users")
          /\ IdsAssignedInSequence(templates, templates', "templates")
          /\ IdsAssignedInSequence(message_logs, message_logs', "message_logs")
          /\ IdsAssignedInSequence(campaigns, campaigns', "campaigns")
          /\ IdsAssignedInSequence(activity_logs, activity_logs',
                                   "activity_logs")]_vars

\* a template was created after the first seeded one was deleted: it has the
\* id after the samples', and id 1 is in use no more
C11_Witness ==
    /\ resp.op = "create_template" /\ resp.code = 200
    /\ 1 \notin IdsOf(templates)
    /\ Len(Samples) + 1 \in IdsOf(templates)
    /\ Len(templates) = Len(Samples)

----------------------------------------------------------------------------
(* C12 *)

TemplateNamesUnique ==
    \A i, j \in 1..Len(templates) : i # j => templates[i].name # templates[j].name

\* the create_template request names a template that, trimmed, lower-cased
\* and with underscores for spaces, a template in the store already has
DuplicateTemplateRequest ==
    /\ Served("create_template")
    /\ Authorised(resp')
    /\ \E i \in 1..Len(templates) :
            templates[i].name
                = ReplaceChar(Lower(Strip(resp'.arg.body.name)), " ", "_")

\* the step leaves the templates, the id counters and the activity log alone
TemplatesUntouched ==
    templates' = templates /\ next_id' = next_id /\ activity_logs' = activity_logs

\* the request passes the checks create_template makes before the name check
PassesTemplateChecks(body) ==
    /\ Strip(body.name) # <<>> /\ Strip(body.body) # <<>>
    /\ Upper(body.category) \in Categories

\* C12 as stated: template names are unique in every reachable state;
\* create_template with a name that normalises to the name of a template in
\* the store fails with 409 and leaves the templates collection, the id
\* counter and the activity log unchanged.
C12_DuplicateNameIs409 ==
    /\ []TemplateNamesUnique
    /\ [][DuplicateTemplateRequest =>
            (resp'.code = 409 /\ TemplatesUntouched)]_vars

\* C12 amended: template names are unique in every reachable state;
\* create_template with a duplicate name always fails and leaves the
\* templates collection, the id counter and the activity log unchanged, with
\* 409 when the body is non-empty and the category valid, and with 400 when
\* one of those earlier checks rejects the request first.
C12_DuplicateNameRejected ==
    /\ []TemplateNamesUnique
    /\ [][DuplicateTemplateRequest =>
            /\ TemplatesUntouched
            /\ IF PassesTemplateChecks(resp'.arg.body)
               THEN resp'.code = 409
               ELSE resp'.code = 400]_vars

\* a name that differs from a stored one in case and spacing was refused
\* with 409
C12_Witness ==
    /\ resp.op = "create_template" /\ resp.code = 409
    /\ \A i \in 1..Len(templates) : templates[i].name # resp.arg.body.name
    /\ \E i \in 1..Len(templates) :
            templates[i].name = ReplaceChar(Lower(Strip(resp.arg.body.name)), " ", "_")

----------------------------------------------------------------------------
(* C13 *)

\* the status update names a provider message id that no MessageLog has
Unmatched(ev) ==
    \/ ~IsSome(ev.id)
    \/ \A i \in 1..Len(message_logs) : message_logs[i].message_id # ev.id

\* C13: a webhook POST whose status updates all name provider message ids
\* that match no MessageLog leaves every MessageLog and every other
\* collection unchanged, and is answered ok.
C13_UnknownIdsIgnored ==
    [][(resp'.op = "receive_webhook"
            /\ \A k \in 1..Len(resp'.arg.events) : Unmatched(resp'.arg.events[k]))
        => (store' = store /\ resp'.code = 200)]_vars

\* a webhook POST with status updates, none of which matches, has been
\* answered while a log that was sent is in the store
C13_Witness ==
    /\ resp.op = "receive_webhook" /\ resp.code = 200
    /\ resp.arg.events # <<>>
    /\ \A k \in 1..Len(resp.arg.events) :
            /\ IsSome(resp.arg.events[k].id)
            /\ Unmatched(resp.arg.events[k])
    /\ \E i \in 1..Len(message_logs) :
            /\ message_logs[i].status = "sent"
            /\ IsSome(message_logs[i].message_id)

----------------------------------------------------------------------------
(* C14 *)

\* a login request that carries the username and the password of the
\* create_user request that has just been served with success
LoginAsCreated ==
    /\ resp.op = "create_user" /\ resp.code = 200
    /\ Served("login")
    /\ resp'.arg.body.username = resp.arg.body.username
    /\ resp'.arg.body.password = resp.arg.body.password

\* C14: logging in with the username and password an active account was
\* created with succeeds, and the token issued is accepted by
\* get_current_user and decodes to that user's id, username and role.
C14_LoginAsCreated ==
    [][LoginAsCreated =>
        /\ resp'.code = 200
        /\ IsSome(resp'.arg.token)
        /\ GetCurrentUser(resp'.arg.token).code = 200
        /\ LET cu == Get(GetCurrentUser(resp'.arg.token).user)
               u == users[Len(users)]
           IN  /\ cu.user_id = u.id
               /\ cu.username = u.username
               /\ cu.role = u.role]_vars

----------------------------------------------------------------------------
(* C15 *)

\* the token's signature is not the server's, or its expiry has elapsed
StaleToken(t) == t.key # SECRET_KEY \/ t.exp <= clock

\* C15: a guarded route called with a token that has expired or whose
\* signature is invalid answers 401 and changes no collection.
C15_StaleTokenRejected ==
    [][(resp' # resp /\ IsSome(resp'.tok) /\ StaleToken(Get(resp'.tok)))
        => (resp'.code = 401 /\ store' = store /\ tokens' = tokens)]_vars

\* a token that login issued has expired and been refused by a route that
\* would have changed the store
C15_Witness ==
    /\ resp.op \in {"delete_template", "send_bulk_message", "create_user"}
    /\ resp.code = 401
    /\ IsSome(resp.tok)
    /\ Get(resp.tok) \in tokens
    /\ Get(resp.tok).exp <= clock

----------------------------------------------------------------------------
(* C16 *)

\* the recipients a bulk form resolves to: the rows of the CSV file when
\* there is one, the recipients field otherwise
ResolvedRecipients(form) ==
    IF IsSome(form.csv) THEN CsvRecipients(Get(form.csv)) ELSE Get(form.recipients)

\* how many of the recipients have a phone that is empty or not valid
InvalidPhones(recs) ==
    Cardinality({k \in 1..Len(recs) :
                    Strip(recs[k].phone) = <<>> \/ ~ValidatePhone(Strip(recs[k].phone))})

\* how many of the gateway calls ended with the given success
Outcomes(results, success) ==
    Cardinality({k \in 1..Len(results) : results[k].success = success})

\* C16: the Campaign of an accepted bulk send is completed, with a
\* completion time, sent_count the number of gateway calls that succeeded,
\* failed_count the number of invalid phones and failed calls, and the two
\* adding up to total_recipients; a completed campaign stays completed.
C16_CampaignCompleted ==
    /\ [][AcceptedBulkSend =>
            LET c == campaigns'[Len(campaigns')]
                recs == ResolvedRecipients(resp'.arg.form)
            IN  /\ c.status = "completed"
                /\ IsSome(c.completed_at)
                /\ c.total_recipients = Len(recs)
                /\ c.sent_count = Outcomes(resp'.arg.results, TRUE)
                /\ c.failed_count = InvalidPhones(recs)
                                    + Outcomes(resp'.arg.results, FALSE)
                /\ c.sent_count + c.failed_count = c.total_recipients]_vars
    /\ [][\A i \in 1..Len(campaigns) :
            campaigns[i].status = "completed"
                => campaigns'[i].status = "completed"]_vars

\* a bulk send to three recipients was accepted: one phone was invalid, one
\* gateway call failed and one succeeded
C16_Witness ==
    /\ resp.op = "send_bulk_message" /\ resp.code = 200
    /\ campaigns # <<>>
    /\ campaigns[Len(campaigns)].total_recipients = 3
    /\ campaigns[Len(campaigns)].sent_count = 1
    /\ campaigns[Len(campaigns)].failed_count = 2
    /\ InvalidPhones(ResolvedRecipients(resp.arg.form)) = 1

----------------------------------------------------------------------------
(* C17 *)

\* the step is a single send whose gateway call failed
FailedSingleSend ==
    /\ resp'.op = "send_single_message"
    /\ resp' # resp \/ message_logs' # message_logs
    /\ resp'.arg.results # <<>>
    /\ ~resp'.arg.results[1].success

----------------------------------------------------------------------------
(* C18 *)

\* p without its surrounding whitespace and without any space, dash or plus
Bare(p) == SelectSeq(Strip(p), LAMBDA ch : ch \notin {" ", "-", "+"})

AllDigits(s) == \A i \in 1..Len(s) : s[i] \in Digits

\* C18: validate_phone(p) is true exactly when p, without surrounding
\* whitespace, spaces, dashes and plus signs, is all digits and 7 to 15
\* characters long; "+91 98765-43210" is accepted and "abc" is rejected.
C18_ValidatePhone ==
    /\ resp.op = "validate_phone" =>
            (resp.arg.valid <=>
                (AllDigits(Bare(resp.arg.phone))
                    /\ Len(Bare(resp.arg.phone)) \in 7..15))
    /\ (resp.op = "validate_phone" /\ resp.arg.phone = GoodPhone) => resp.arg.valid
    /\ (resp.op = "validate_phone" /\ resp.arg.phone = BadPhone) => ~resp.arg.valid

\* a number of 15 digits with a dash in it and whitespace around it has been
\* accepted
C18_Witness ==
    /\ resp.op = "validate_phone" /\ resp.arg.valid
    /\ Len(Bare(resp.arg.phone)) = 15
    /\ Len(resp.arg.phone) > 16

----------------------------------------------------------------------------
(* C19 *)

\* C19: normalisation removes spaces, dashes and plus signs; an input whose
\* stripped form is a bare 10-digit number comes back prefixed with 91, 12
\* characters long, and every other input comes back stripped and otherwise
\* unchanged.
C19_NormalizePhone ==
    resp.op = "normalize_phone" =>
        LET bare == Bare(resp.arg.phone)
        IN  IF Len(bare) = 10 /\ AllDigits(bare)
            THEN /\ resp.arg.normalized = <<"9","1">> \o bare
                 /\ Len(resp.arg.normalized) = 12
            ELSE resp.arg.normalized = bare

----------------------------------------------------------------------------
(* C20 *)

\* the form resolves no recipient, names no template, or names a template
\* that is not in the store
FailsBulkChecks(form) ==
    \/ ~IsSome(form.csv) /\ ~IsSome(form.recipients)
    \/ ResolvedRecipients(form) = <<>>
    \/ form.template_id = <<>>
    \/ ~IsSome(ParseInt(form.template_id))
    \/ Get(ParseInt(form.template_id)) = 0
    \/ \A i \in 1..Len(templates) : templates[i].id # Get(ParseInt(form.template_id))

\* the step served a bulk send
BulkSendServed == resp' # resp /\ resp'.op = "send_bulk_message"

\* C20: a bulk send that resolves no recipient, gives no template id or
\* names a template that does not exist is rejected and leaves campaigns,
\* message_logs, activity_logs and the id counters as they were, without a
\* call to the gateway; a Campaign is only ever added by a bulk send that
\* passed all of these checks.
C20_RejectedBulkSendCreatesNothing ==
    /\ [][(BulkSendServed /\ FailsBulkChecks(resp'.arg.form)) =>
            /\ resp'.code \in {400, 401, 404, 500}
            /\ resp'.arg.results = <<>>
            /\ UNCHANGED <<campaigns, message_logs, activity_logs, next_id,
                           outbox>>]_vars
    /\ [][(BulkSendServed /\ resp'.code # 200) =>
            UNCHANGED <<campaigns, message_logs, activity_logs, next_id,
                        outbox>>]_vars
    /\ [][Len(campaigns') # Len(campaigns) =>
            /\ resp'.op = "send_bulk_message" /\ resp'.code = 200
            /\ ~FailsBulkChecks(resp'.arg.form)
            /\ Len(campaigns') = Len(campaigns) + 1
            /\ SubSeq(campaigns', 1, Len(campaigns)) = campaigns]_vars

\* a bulk send naming a template that does not exist has been answered with
\* 404 for a signed-in user, and the store holds no campaign and no message
C20_Witness ==
    /\ resp.op = "send_bulk_message" /\ resp.code = 404
    /\ resp.arg.form.template_id = <<"9">>
    /\ ResolvedRecipients(resp.arg.form) # <<>>
    /\ campaigns = <<>> /\ message_logs = <<>> /\ outbox = <<>>

----------------------------------------------------------------------------
(* C21 *)

\* the tasks that stand between a handler's first read of the store and its
\* last write
MidHandler == {t \in TaskIds : tasks[t].pc \in {"checked", "sending"}}

Statuses(cs) == {cs[i].status : i \in 1..Len(cs)}

====
